---------------------------- MODULE Spec2Model ----------------------------
(* A model of the format and dialect inference engine of FileCLI:           *)
(*   - FileType / FileTypeAnalyzer (file_handling/analyze/file_type_analyzer.py), *)
(*   - FileSniffer and its enums (file_handling/analyze/sniffer.py),        *)
(*   - File.get_random_sample, the cache and call_counter decorators        *)
(*     (file_handling/file/__init__.py, helpers/decorators.py),             *)
(*   - the EnumDescriptor attributes of TextFile and DelimitedFile          *)
(*     (file_handling/file/text_file.py, delimited_file.py),                *)
(*   - Levenshtein.distance (helpers/levenshtein.py),                       *)
(*   - Validator, Rule and score_calc (validator/__init__.py).              *)
(* Byte strings are sequences of byte values (0..255).                      *)
EXTENDS Integers, Sequences, FiniteSets, TLC

VARIABLES
    path_suffix,   \* Path(file_path).suffix of the file given to FileTypeAnalyzer
    file_lines,    \* the file's content as the lines binary iteration yields
    result         \* the last FileTypeAnalyzer call: [op, value, exc]

VARIABLES
    ops,               \* number of operations made on the sniffer so far
    ansi_codec,        \* whether the interpreter resolves the codec name "ansi"
    file_size,         \* size in bytes of the file behind the File object
    file_contents,     \* the contents a read of whole chunks of the file can yield
    BYTES_TO_ANALYZE,  \* FileSniffer.BYTES_TO_ANALYZE as the instance sees it
    cache,             \* File.cache['get_random_sample']: [value, fresh]
    sample,            \* FileSniffer.sample: [chunks, content]
    _encoding,         \* FileSniffer attributes, "unset" while the attribute is missing
    _delimiter,
    _line_terminator,
    _lineterminator,
    _quotechar,
    _header,
    call_count,        \* FileSniffer.call_count: calls made so far, per inference method
    origin,            \* per property: "unset", "inferred", or the member last assigned by the caller
    last               \* the last operation on the sniffer and what it did

VARIABLES
    name,              \* the argument of Encoding.get: [is_none, chars]
    descriptor_class,  \* EnumDescriptor.enum_class of each descriptor of TextFile / DelimitedFile
    instances,         \* the TextFile / DelimitedFile objects constructed so far, by class name
    access,            \* the last construction, assignment or read on those objects
    arg_s1, arg_s2,    \* the arguments of Levenshtein.distance
    arg_limit,
    validator_rules,   \* Validator.rules: the rules added so far
    validator_results, \* Validator.results
    file_scores        \* the score each condition's function gives on the file validated

typeVars == <<path_suffix, file_lines, result>>

snifferVars ==
    <<ops, ansi_codec, file_size, file_contents, BYTES_TO_ANALYZE, cache, sample,
      _encoding, _delimiter, _line_terminator, _lineterminator, _quotechar, _header,
      call_count, origin, last>>

libVars ==
    <<name, descriptor_class, instances, access, arg_s1, arg_s2, arg_limit, validator_rules,
      validator_results, file_scores>>

vars == <<typeVars, snifferVars, libVars>>

-----------------------------------------------------------------------------
(* Generic helpers on byte strings.                                          *)

Min(a, b) == IF a <= b THEN a ELSE b

\* bytes.startswith(prefix)
StartsWith(s, p) == Len(p) <= Len(s) /\ SubSeq(s, 1, Len(p)) = p

\* file.read(n) at offset 0: the first n bytes, or fewer at end of file
Take(s, n) == SubSeq(s, 1, Min(n, Len(s)))

RECURSIVE Flatten(_)
Flatten(ls) == IF ls = <<>> THEN <<>> ELSE Head(ls) \o Flatten(Tail(ls))

\* number of positions of s holding byte b
CountByte(s, b) == Cardinality({i \in 1..Len(s) : s[i] = b})

\* index of the first occurrence of b in s (b occurs in s)
FirstIndex(s, b) == CHOOSE i \in 1..Len(s) : s[i] = b /\ \A j \in 1..(i-1) : s[j] # b

RECURSIVE Repeat(_, _)
Repeat(x, n) == IF n <= 0 THEN <<>> ELSE <<x>> \o Repeat(x, n - 1)

-----------------------------------------------------------------------------
(* FileType: the enumeration, in declaration order, with each member's value. *)

FileTypeOrder ==
    << "UNKNOWN", "PDF", "EXCEL_LEGACY", "EXCEL", "CSV", "JSON", "ZIP", "GZIP",
       "TAR", "XML", "HTML", "TEXT", "JSONL", "TSV", "PIPE", "FIXED_WIDTH",
       "NUMBERS", "PAGES" >>

FileType == {FileTypeOrder[i] : i \in 1..Len(FileTypeOrder)}

file_extension(ft) ==
    CASE ft = "UNKNOWN"      -> ""
      [] ft = "PDF"          -> ".pdf"
      [] ft = "EXCEL_LEGACY" -> ".xls"
      [] ft = "EXCEL"        -> ".xlsx"
      [] ft = "CSV"          -> ".csv"
      [] ft = "JSON"         -> ".json"
      [] ft = "ZIP"          -> ".zip"
      [] ft = "GZIP"         -> ".gz"
      [] ft = "TAR"          -> ".tar"
      [] ft = "XML"          -> ".xml"
      [] ft = "HTML"         -> ".html"
      [] ft = "TEXT"         -> ".txt"
      [] ft = "JSONL"        -> ".jsonl"
      [] ft = "TSV"          -> ".tsv"
      [] ft = "PIPE"         -> ".pipe"
      [] ft = "FIXED_WIDTH"  -> ".fixed_width"
      [] ft = "NUMBERS"      -> ".numbers"
      [] ft = "PAGES"        -> ".pages"

description(ft) ==
    CASE ft = "UNKNOWN"      -> "An unknown file type"
      [] ft = "PDF"          -> "A PDF file"
      [] ft = "EXCEL_LEGACY" -> "An Excel file"
      [] ft = "EXCEL"        -> "An Excel file"
      [] ft = "CSV"          -> "A CSV file"
      [] ft = "JSON"         -> "A JSON file"
      [] ft = "ZIP"          -> "A ZIP file"
      [] ft = "GZIP"         -> "A GZIP file"
      [] ft = "TAR"          -> "A TAR file"
      [] ft = "XML"          -> "An XML file"
      [] ft = "HTML"         -> "An HTML file"
      [] ft = "TEXT"         -> "A text file"
      [] ft = "JSONL"        -> "A JSON Lines file"
      [] ft = "TSV"          -> "A TSV file"
      [] ft = "PIPE"         -> "A pipe-delimited file"
      [] ft = "FIXED_WIDTH"  -> "A fixed width file"
      [] ft = "NUMBERS"      -> "Mac Numbers file"
      [] ft = "PAGES"        -> "Mac Pages file"

\* b'%PDF', b'\xd0\xcf\x11\xe0\xa1\xb1\x1a\xe1', b'\x50\x4b\x03\x04', b'PK\x03\x04', b'\x1f\x8b'
byte_signature(ft) ==
    CASE ft = "PDF"          -> <<37, 80, 68, 70>>
      [] ft = "EXCEL_LEGACY" -> <<208, 207, 17, 224, 161, 177, 26, 225>>
      [] ft = "EXCEL"        -> <<80, 75, 3, 4>>
      [] ft = "ZIP"          -> <<80, 75, 3, 4>>
      [] ft = "GZIP"         -> <<31, 139>>
      [] OTHER               -> <<>>

is_text(ft) ==
    ft \in {"CSV", "JSON", "XML", "HTML", "TEXT", "JSONL", "TSV", "PIPE", "FIXED_WIDTH"}

\* the 'delimiter' key of the member's value, <<>> where the dict has none
delimiter_key(ft) ==
    CASE ft = "CSV"  -> <<44>>
      [] ft = "TSV"  -> <<9>>
      [] ft = "PIPE" -> <<124>>
      [] OTHER       -> <<>>

\* the dict that is the member's value
FileTypeValue(ft) ==
    << file_extension(ft), description(ft), byte_signature(ft), is_text(ft),
       delimiter_key(ft) >>

\* FileType.__eq__ / __ne__: members compare by value
FileTypeEq(a, b) == FileTypeValue(a) = FileTypeValue(b)

\* the first member, in declaration order, that satisfies P; dflt if none does
FirstFileType(P(_), dflt) ==
    IF \E i \in 1..Len(FileTypeOrder) : P(FileTypeOrder[i])
    THEN FileTypeOrder[CHOOSE i \in 1..Len(FileTypeOrder) :
             /\ P(FileTypeOrder[i])
             /\ \A j \in 1..(i-1) : ~P(FileTypeOrder[j])]
    ELSE dflt

\* FileType.from_extension
from_extension(suffix) ==
    LET Match(ft) == file_extension(ft) = suffix
    IN  FirstFileType(Match, "UNKNOWN")

-----------------------------------------------------------------------------
(* FileTypeAnalyzer: the three sub-classifiers and the merge.                *)
(* A call yields [value |-> FileType, exc |-> "none"] or an exception.       *)

Returned(v) == [value |-> v, exc |-> "none"]
Raised(e)   == [value |-> "none", exc |-> e]

file_type_from_extension(suffix) == Returned(from_extension(suffix))

SignatureMatches(byte_sig, ft) ==
    StartsWith(byte_sig, byte_signature(ft)) /\ byte_signature(ft) # <<>>

file_type_from_signature(lines) ==
    LET byte_sig == Take(Flatten(lines), 16)
        Match(ft) == SignatureMatches(byte_sig, ft)
    IN  Returned(FirstFileType(Match, "UNKNOWN"))

\* the candidate delimiter bytes , \t | ;
CharDelimiters == {44, 9, 124, 59}

\* Counter(...).most_common(1)[0]: the most frequent candidate byte of the line,
\* ties going to the byte met first (the sort is stable on insertion order)
MostCommon(line) ==
    LET present == {b \in CharDelimiters : CountByte(line, b) > 0}
    IN  CHOOSE b \in present :
            \A c \in present \ {b} :
                \/ CountByte(line, b) > CountByte(line, c)
                \/ /\ CountByte(line, b) = CountByte(line, c)
                   /\ FirstIndex(line, b) < FirstIndex(line, c)

DelimiterType(line) ==
    LET present == {b \in CharDelimiters : CountByte(line, b) > 0}
    IN  IF present # {} /\ CountByte(line, MostCommon(line)) > 1
        THEN CASE MostCommon(line) = 44  -> "CSV"
               [] MostCommon(line) = 9   -> "TSV"
               [] MostCommon(line) = 124 -> "PIPE"
               [] MostCommon(line) = 59  -> "CSV"
        ELSE "none"

\* every line of the file taken as sampled
SampledLines_All(lines) == lines

\* the lines the loop collects: the first line and up to 20 more
SampledLines(lines) == SubSeq(lines, 1, Min(21, Len(lines)))

file_type_from_characteristics(lines) ==
    IF Len(lines) = 0 THEN Raised("StopIteration")      \* next(file) on an empty file
    ELSE IF Len(lines) < 4 THEN Returned("UNKNOWN")     \* StopIteration with i < 3
    ELSE
      LET first_line == lines[1]
          sampled    == SampledLines(lines)
      IN  IF StartsWith(first_line, <<80, 75>>) THEN Returned("ZIP")
          ELSE IF StartsWith(first_line, <<60, 63, 120, 109, 108>>) THEN Returned("XML")
          ELSE IF StartsWith(first_line, <<123>>) THEN Returned("JSON")
          ELSE IF StartsWith(first_line, <<91>>) THEN Returned("JSONL")
          ELSE IF StartsWith(first_line, <<73, 68>>) THEN Returned("PDF")
          ELSE IF DelimiterType(first_line) # "none"
               THEN Returned(DelimiterType(first_line))
          ELSE IF Cardinality({Len(sampled[i]) : i \in 1..Len(sampled)}) = 1
               THEN Returned("FIXED_WIDTH")
          ELSE Returned("UNKNOWN")

\* the merge with the bare-signature rule moved ahead of the agreement rules
MergeFileTypes_SignatureFirst(ft_from_extension, ft_from_signature, ft_from_characteristics) ==
    IF ~FileTypeEq(ft_from_signature, "UNKNOWN")
    THEN ft_from_signature
    ELSE IF FileTypeEq(ft_from_extension, ft_from_characteristics)
          /\ ~FileTypeEq(ft_from_extension, "UNKNOWN")
    THEN ft_from_extension
    ELSE IF ~FileTypeEq(ft_from_characteristics, "UNKNOWN")
    THEN ft_from_characteristics
    ELSE "TEXT"

\* the merge ending in UNKNOWN where no rule applies
MergeFileTypes_NoFallback(ft_from_extension, ft_from_signature, ft_from_characteristics) ==
    IF ~FileTypeEq(ft_from_signature, "UNKNOWN")
    THEN ft_from_signature
    ELSE IF ~FileTypeEq(ft_from_extension, "UNKNOWN")
          /\ FileTypeEq(ft_from_extension, ft_from_characteristics)
    THEN ft_from_extension
    ELSE ft_from_characteristics

\* the merge with the fixed-width rule moved ahead of the bare-signature rule
MergeFileTypes_FixedWidthFirst(ft_from_extension, ft_from_signature, ft_from_characteristics) ==
    IF FileTypeEq(ft_from_extension, ft_from_signature)
          /\ ~FileTypeEq(ft_from_extension, "UNKNOWN")
    THEN ft_from_extension
    ELSE IF FileTypeEq(ft_from_extension, ft_from_characteristics)
          /\ ~FileTypeEq(ft_from_extension, "UNKNOWN")
    THEN ft_from_extension
    ELSE IF FileTypeEq(ft_from_signature, ft_from_characteristics)
          /\ ~FileTypeEq(ft_from_signature, "UNKNOWN")
    THEN ft_from_signature
    ELSE IF ft_from_extension = "UNKNOWN"
          /\ FileTypeEq(ft_from_characteristics, "FIXED_WIDTH")
    THEN ft_from_characteristics
    ELSE IF ~FileTypeEq(ft_from_signature, "UNKNOWN")
    THEN ft_from_signature
    ELSE IF ~FileTypeEq(ft_from_characteristics, "UNKNOWN")
    THEN ft_from_characteristics
    ELSE "TEXT"

\* the merge of FileTypeAnalyzer.file_type, on the three classifications
MergeFileTypes(ft_from_extension, ft_from_signature, ft_from_characteristics) ==
    IF FileTypeEq(ft_from_extension, ft_from_signature)
          /\ ~FileTypeEq(ft_from_extension, "UNKNOWN")
    THEN ft_from_extension
    ELSE IF FileTypeEq(ft_from_extension, ft_from_characteristics)
          /\ ~FileTypeEq(ft_from_extension, "UNKNOWN")
    THEN ft_from_extension
    ELSE IF FileTypeEq(ft_from_signature, ft_from_characteristics)
          /\ ~FileTypeEq(ft_from_signature, "UNKNOWN")
    THEN ft_from_signature
    ELSE IF ~FileTypeEq(ft_from_signature, "UNKNOWN")
    THEN ft_from_signature
    ELSE IF ft_from_extension = "UNKNOWN"
          /\ FileTypeEq(ft_from_characteristics, "FIXED_WIDTH")
    THEN ft_from_characteristics
    ELSE IF ~FileTypeEq(ft_from_characteristics, "UNKNOWN")
    THEN ft_from_characteristics
    ELSE "TEXT"

file_type(suffix, lines) ==
    LET e == file_type_from_extension(suffix)
        s == file_type_from_signature(lines)
        c == file_type_from_characteristics(lines)
    IN  IF c.exc # "none" THEN c
        ELSE Returned(MergeFileTypes(e.value, s.value, c.value))

-----------------------------------------------------------------------------
(* The files the analyzer is run on.                                         *)

MaxLines == 5

\* how a first line begins: nothing, PK\x03\x04, PK, %PDF, the .xls signature,
\* the gzip signature, <?xml, {, [, ID, a
Heads ==
    { <<>>, <<80, 75, 3, 4>>, <<80, 75>>, <<37, 80, 68, 70>>,
      <<208, 207, 17, 224, 161, 177, 26, 225>>, <<31, 139>>,
      <<60, 63, 120, 109, 108>>, <<123>>, <<91>>, <<73, 68>>, <<97>> }

\* how it goes on: "b", "b,c", "b,c,d", "b\tc\td", "b|c|d", "b;c;d", "b\t,c\t,", "b,\tc,\t"
Bodies ==
    { <<98>>, <<98, 44, 99>>, <<98, 44, 99, 44, 100>>, <<98, 9, 99, 9, 100>>,
      <<98, 124, 99, 124, 100>>, <<98, 59, 99, 59, 100>>,
      <<98, 9, 44, 99, 9, 44>>, <<98, 44, 9, 99, 44, 9>> }

FirstLines == {h \o b \o <<10>> : h \in Heads, b \in Bodies}

\* a file of n lines: the first line, then n-1 lines that are all copies of it
\* (same) or all the two-byte line "z\n"
FileOf(f, n, same) == <<f>> \o Repeat(IF same THEN f ELSE <<122, 10>>, n - 1)

\* files longer than the sample: 20 or 21 lines "ab\n", then the line "z\n"
LongFiles == {Repeat(<<97, 98, 10>>, k) \o << <<122, 10>> >> : k \in {20, 21}}

FileContents ==
    {<<>>} \cup {FileOf(f, n, same) : f \in FirstLines, n \in 1..MaxLines, same \in BOOLEAN}
           \cup LongFiles

Suffixes == {"", ".txt", ".csv", ".zip", ".xlsx", ".pdf", ".fixed_width", ".dat"}

NoResult == [op |-> "none", value |-> "none", exc |-> "none"]

Call(op, r) == [op |-> op, value |-> r.value, exc |-> r.exc]

\* the sniffer's variables while only the type classifier is exercised
SnifferAbsent ==
    /\ ops = 0
    /\ ansi_codec = TRUE
    /\ file_size = 0
    /\ file_contents = {}
    /\ BYTES_TO_ANALYZE = 16184
    /\ cache = [value |-> [chunks |-> 0, content |-> <<>>], fresh |-> TRUE]
    /\ sample = [chunks |-> 0, content |-> <<>>]
    /\ _encoding = "unset"
    /\ _delimiter = "unset"
    /\ _line_terminator = "unset"
    /\ _lineterminator = "unset"
    /\ _quotechar = "unset"
    /\ _header = "unset"
    /\ call_count = "none"
    /\ origin = "none"
    /\ last = "none"

\* the remaining variables while the function or class they belong to is not exercised
NameAbsent == name = [is_none |-> TRUE, chars |-> <<>>]

DescriptorsAbsent ==
    /\ descriptor_class = "none"
    /\ instances = <<>>
    /\ access = "none"

DistanceAbsent ==
    /\ arg_s1 = <<>>
    /\ arg_s2 = <<>>
    /\ arg_limit = 0

ValidatorAbsent ==
    /\ validator_rules = {}
    /\ validator_results = <<>>
    /\ file_scores = "none"

LibAbsent ==
    /\ NameAbsent
    /\ DescriptorsAbsent
    /\ DistanceAbsent
    /\ ValidatorAbsent

InitType ==
    /\ path_suffix \in Suffixes
    /\ file_lines \in FileContents
    /\ result = NoResult
    /\ SnifferAbsent
    /\ LibAbsent

CallFromExtension ==
    /\ result' = Call("file_type_from_extension", file_type_from_extension(path_suffix))
    /\ UNCHANGED <<path_suffix, file_lines>>
    /\ UNCHANGED <<snifferVars, libVars>>

CallFromSignature ==
    /\ result' = Call("file_type_from_signature", file_type_from_signature(file_lines))
    /\ UNCHANGED <<path_suffix, file_lines>>
    /\ UNCHANGED <<snifferVars, libVars>>

CallFromCharacteristics ==
    /\ result' = Call("file_type_from_characteristics",
                      file_type_from_characteristics(file_lines))
    /\ UNCHANGED <<path_suffix, file_lines>>
    /\ UNCHANGED <<snifferVars, libVars>>

CallFileType ==
    /\ result' = Call("file_type", file_type(path_suffix, file_lines))
    /\ UNCHANGED <<path_suffix, file_lines>>
    /\ UNCHANGED <<snifferVars, libVars>>

NextType ==
    \/ CallFromExtension
    \/ CallFromSignature
    \/ CallFromCharacteristics
    \/ CallFileType

SpecType == InitType /\ [][NextType]_vars


-----------------------------------------------------------------------------
(* Claims about the type classifier, checked under SpecType.                 *)

ExtOf == from_extension(path_suffix)
SigOf == file_type_from_signature(file_lines).value
ChrOf == file_type_from_characteristics(file_lines).value

\* the seven-step precedence table, first matching rule
PrecedenceTable(e, s, c) ==
    LET rules == << [when |-> e = s /\ e # "UNKNOWN",           then |-> e],
                    [when |-> e = c /\ e # "UNKNOWN",           then |-> e],
                    [when |-> s = c /\ s # "UNKNOWN",           then |-> s],
                    [when |-> s # "UNKNOWN",                    then |-> s],
                    [when |-> e = "UNKNOWN" /\ c = "FIXED_WIDTH", then |-> c],
                    [when |-> c # "UNKNOWN",                    then |-> c],
                    [when |-> TRUE,                             then |-> "TEXT"] >>
        k == CHOOSE i \in 1..7 : rules[i].when /\ \A j \in 1..(i-1) : ~rules[j].when
    IN  rules[k].then

\* C1: whenever file_type returns, its result is the outcome of the first
\* matching rule of the seven-step precedence table applied to the three
\* sub-classifications of the same file.
C1_MergePolicy ==
    (result.op = "file_type" /\ result.exc = "none")
        => result.value = PrecedenceTable(ExtOf, SigOf, ChrOf)

\* file_type has returned on a file where only rule 2 and rule 4 compete
\* (extension .zip, signature EXCEL, characteristics ZIP)
C1_Witness ==
    /\ result.op = "file_type"
    /\ ExtOf = "ZIP" /\ SigOf = "EXCEL" /\ ChrOf = "ZIP"
    /\ result.value = "ZIP"

PK34 == <<80, 75, 3, 4>>

\* C2: for a file whose first bytes are PK\x03\x04, file_type_from_signature
\* returns ZIP, whatever the extension.
C2_PKSignatureIsZip ==
    (result.op = "file_type_from_signature" /\ StartsWith(Flatten(file_lines), PK34))
        => result.value = "ZIP"

\* the table itself: signatures pairwise distinct, none a prefix of a later one
SignatureTableDistinct ==
    \A i, j \in 1..Len(FileTypeOrder) :
        (i < j /\ byte_signature(FileTypeOrder[i]) # <<>>
               /\ byte_signature(FileTypeOrder[j]) # <<>>)
        => /\ byte_signature(FileTypeOrder[i]) # byte_signature(FileTypeOrder[j])
           /\ ~StartsWith(byte_signature(FileTypeOrder[j]), byte_signature(FileTypeOrder[i]))

\* C3: no two variants carry the same non-empty signature, and no variant's
\* non-empty signature is a prefix of the signature of a variant declared later,
\* so that whenever file_type_from_signature has run, every variant whose
\* non-empty signature begins the file is the variant it returned.
C3_SignaturesDistinct ==
    (result.op = "file_type_from_signature")
        => /\ SignatureTableDistinct
           /\ \A ft \in FileType :
                 SignatureMatches(Take(Flatten(file_lines), 16), ft) => result.value = ft

\* C4: on a file of fewer than 4 lines (0, 1, 2 or 3), whatever its content,
\* file_type_from_characteristics returns UNKNOWN and raises no error.
C4_FewLinesUnknown ==
    (result.op = "file_type_from_characteristics" /\ Len(file_lines) < 4)
        => (result.exc = "none" /\ result.value = "UNKNOWN")

\* the results the steps of the characteristics table allow on the lines
CharacteristicsTable(lines) ==
    LET first   == lines[1]
        sampled == SubSeq(lines, 1, Min(21, Len(lines)))
        top     == CHOOSE n \in 0..Len(first) :
                      /\ \A b \in {44, 9, 124, 59} : CountByte(first, b) <= n
                      /\ n = 0 \/ \E b \in {44, 9, 124, 59} : CountByte(first, b) = n
        ByDelimiter(b) == CASE b = 44  -> "CSV"
                            [] b = 9   -> "TSV"
                            [] b = 124 -> "PIPE"
                            [] b = 59  -> "CSV"
    IN  IF StartsWith(first, <<80, 75>>) THEN {"ZIP"}
        ELSE IF StartsWith(first, <<60, 63, 120, 109, 108>>) THEN {"XML"}
        ELSE IF StartsWith(first, <<123>>) THEN {"JSON"}
        ELSE IF StartsWith(first, <<91>>) THEN {"JSONL"}
        ELSE IF StartsWith(first, <<73, 68>>) THEN {"PDF"}
        ELSE IF top > 1
             THEN {ByDelimiter(b) : b \in {c \in {44, 9, 124, 59} : CountByte(first, c) = top}}
        ELSE IF \A k \in 1..Len(sampled) : Len(sampled[k]) = Len(first)
             THEN {"FIXED_WIDTH"}
        ELSE {"UNKNOWN"}

\* C19: on a file of at least 4 lines, of which at most 21 are sampled,
\* file_type_from_characteristics returns the result of the first matching
\* step: first line starts with PK -> ZIP; <?xml -> XML; { -> JSON; [ -> JSONL;
\* ID -> PDF; the most frequent of , tab | ; occurs more than once in the first
\* line -> CSV, TSV, PIPE, CSV; all sampled lines equally long -> FIXED_WIDTH;
\* else UNKNOWN.
C19_CharacteristicsSteps ==
    (result.op = "file_type_from_characteristics" /\ Len(file_lines) >= 4)
        => /\ result.exc = "none"
           /\ result.value \in CharacteristicsTable(file_lines)

\* file_type_from_characteristics has answered FIXED_WIDTH on a file whose
\* 22nd line is shorter than the 21 lines before it
C19_Witness ==
    /\ result.op = "file_type_from_characteristics"
    /\ Len(file_lines) = 22
    /\ Len(file_lines[22]) # Len(file_lines[1])
    /\ result.value = "FIXED_WIDTH"

\* C20: file_type never returns UNKNOWN: whatever the three
\* sub-classifications, the result is a FileType other than UNKNOWN, and it
\* is TEXT when all three are UNKNOWN.
C20_NeverUnknown ==
    (result.op = "file_type" /\ result.exc = "none")
        => /\ result.value \in FileType \ {"UNKNOWN"}
           /\ (ExtOf = "UNKNOWN" /\ SigOf = "UNKNOWN" /\ ChrOf = "UNKNOWN")
                 => result.value = "TEXT"
           /\ \A e \in FileType : MergeFileTypes(e, SigOf, ChrOf) # "UNKNOWN"

\* file_type has answered TEXT on a file none of the three classifiers knows
C20_Witness ==
    /\ result.op = "file_type"
    /\ ExtOf = "UNKNOWN" /\ SigOf = "UNKNOWN" /\ ChrOf = "UNKNOWN"
    /\ result.value = "TEXT"


\* C26: for a file with extension .csv, at least 4 lines, no matching byte
\* signature, and a first line in which the comma is the most frequent
\* candidate delimiter and occurs at least twice, file_type returns CSV,
\* whatever the first field is (a header line starting with ID included).
C26_CsvWithCommasIsCsv ==
    (/\ result.op = "file_type"
     /\ path_suffix = ".csv"
     /\ Len(file_lines) >= 4
     /\ SigOf = "UNKNOWN"
     /\ CountByte(file_lines[1], 44) >= 2
     /\ \A b \in CharDelimiters \ {44} :
           CountByte(file_lines[1], b) < CountByte(file_lines[1], 44))
        => (result.exc = "none" /\ result.value = "CSV")

\* the precedence list without its fifth rule
PrecedenceWithoutRule5(e, s, c) ==
    IF e = s /\ e # "UNKNOWN" THEN e
    ELSE IF e = c /\ e # "UNKNOWN" THEN e
    ELSE IF s = c /\ s # "UNKNOWN" THEN s
    ELSE IF s # "UNKNOWN" THEN s
    ELSE IF c # "UNKNOWN" THEN c
    ELSE "TEXT"

\* C27: merge rule 5 (extension UNKNOWN and characteristics FIXED_WIDTH ->
\* characteristics) never changes the outcome: file_type returns what the
\* precedence list without rule 5 returns, for the file's own
\* sub-classifications and for every extension type in their place.
C27_Rule5Redundant ==
    (result.op = "file_type" /\ result.exc = "none")
        => /\ result.value = PrecedenceWithoutRule5(ExtOf, SigOf, ChrOf)
           /\ \A e \in FileType :
                 MergeFileTypes(e, SigOf, ChrOf) = PrecedenceWithoutRule5(e, SigOf, ChrOf)

\* file_type has answered through rule 5: extension unknown, no signature,
\* all sampled lines equally long
C27_Witness ==
    /\ result.op = "file_type"
    /\ ExtOf = "UNKNOWN" /\ SigOf = "UNKNOWN" /\ ChrOf = "FIXED_WIDTH"
    /\ result.value = "FIXED_WIDTH"

-----------------------------------------------------------------------------
(* The enumerations of sniffer.py. A member is the string "Class.NAME".      *)

DelimiterOrder ==
    << "Delimiter.NONE", "Delimiter.COMMA", "Delimiter.SEMICOLON", "Delimiter.TAB",
       "Delimiter.SPACE" >>

Delimiter == {DelimiterOrder[i] : i \in 1..Len(DelimiterOrder)}

LineTerminatorOrder == << "LineTerminator.CRLF", "LineTerminator.LF", "LineTerminator.CR" >>

LineTerminator == {LineTerminatorOrder[i] : i \in 1..Len(LineTerminatorOrder)}

QuotecharOrder ==
    << "Quotechar.DOUBLE_QUOTE", "Quotechar.SINGLE_QUOTE", "Quotechar.BACKTICK",
       "Quotechar.NONE" >>

Quotechar == {QuotecharOrder[i] : i \in 1..Len(QuotecharOrder)}

Header == {"Header.TRUE", "Header.FALSE"}

EncodingNames ==
    << "ASCII", "ANSI", "ISO_8859_1", "WINDOWS_1252", "UTF_8_BOM", "UTF_8", "CP1252",
       "LATIN_1", "MACROMAN", "UTF_16_BE", "UTF_16_LE", "UTF_16", "UTF_32_BE",
       "UTF_32_LE", "UTF_32", "CP850", "CP1250", "CP1251", "CP1253" >>

EncodingOrder == [i \in 1..Len(EncodingNames) |-> "Encoding." \o EncodingNames[i]]

Encoding == {EncodingOrder[i] : i \in 1..Len(EncodingOrder)}

\* the member's value as bytes (member.value.encode()); Delimiter.NONE has value None
EnumValue(member) ==
    CASE member = "Delimiter.COMMA"        -> <<44>>
      [] member = "Delimiter.SEMICOLON"    -> <<59>>
      [] member = "Delimiter.TAB"          -> <<9>>
      [] member = "Delimiter.SPACE"        -> <<32>>
      [] member = "LineTerminator.CRLF"    -> <<13, 10>>
      [] member = "LineTerminator.LF"      -> <<10>>
      [] member = "LineTerminator.CR"      -> <<13>>
      [] member = "Quotechar.DOUBLE_QUOTE" -> <<34>>
      [] member = "Quotechar.SINGLE_QUOTE" -> <<39>>
      [] member = "Quotechar.BACKTICK"     -> <<96>>
      [] member = "Quotechar.NONE"         -> <<>>

\* text is a sequence of code points; the member names of Encoding as text,
\* in the order of EncodingNames
EncodingNameChars ==
    <<
       <<65, 83, 67, 73, 73>>,                               \* ASCII
       <<65, 78, 83, 73>>,                                   \* ANSI
       <<73, 83, 79, 95, 56, 56, 53, 57, 95, 49>>,           \* ISO_8859_1
       <<87, 73, 78, 68, 79, 87, 83, 95, 49, 50, 53, 50>>,   \* WINDOWS_1252
       <<85, 84, 70, 95, 56, 95, 66, 79, 77>>,               \* UTF_8_BOM
       <<85, 84, 70, 95, 56>>,                               \* UTF_8
       <<67, 80, 49, 50, 53, 50>>,                           \* CP1252
       <<76, 65, 84, 73, 78, 95, 49>>,                       \* LATIN_1
       <<77, 65, 67, 82, 79, 77, 65, 78>>,                   \* MACROMAN
       <<85, 84, 70, 95, 49, 54, 95, 66, 69>>,               \* UTF_16_BE
       <<85, 84, 70, 95, 49, 54, 95, 76, 69>>,               \* UTF_16_LE
       <<85, 84, 70, 95, 49, 54>>,                           \* UTF_16
       <<85, 84, 70, 95, 51, 50, 95, 66, 69>>,               \* UTF_32_BE
       <<85, 84, 70, 95, 51, 50, 95, 76, 69>>,               \* UTF_32_LE
       <<85, 84, 70, 95, 51, 50>>,                           \* UTF_32
       <<67, 80, 56, 53, 48>>,                               \* CP850
       <<67, 80, 49, 50, 53, 48>>,                           \* CP1250
       <<67, 80, 49, 50, 53, 49>>,                           \* CP1251
       <<67, 80, 49, 50, 53, 51>>                            \* CP1253
    >>

\* the members' values (the decoder names) as text, in the same order
EncodingValueChars ==
    <<
       <<97, 115, 99, 105, 105>>,                                   \* ascii
       <<97, 110, 115, 105>>,                                       \* ansi
       <<105, 115, 111, 45, 56, 56, 53, 57, 45, 49>>,               \* iso-8859-1
       <<119, 105, 110, 100, 111, 119, 115, 45, 49, 50, 53, 50>>,   \* windows-1252
       <<117, 116, 102, 45, 56, 45, 115, 105, 103>>,                \* utf-8-sig
       <<117, 116, 102, 45, 56>>,                                   \* utf-8
       <<99, 112, 49, 50, 53, 50>>,                                 \* cp1252
       <<108, 97, 116, 105, 110, 95, 49>>,                          \* latin_1
       <<109, 97, 99, 114, 111, 109, 97, 110>>,                     \* macroman
       <<117, 116, 102, 45, 49, 54, 45, 98, 101>>,                  \* utf-16-be
       <<117, 116, 102, 45, 49, 54, 45, 108, 101>>,                 \* utf-16-le
       <<117, 116, 102, 45, 49, 54>>,                               \* utf-16
       <<117, 116, 102, 45, 51, 50, 45, 98, 101>>,                  \* utf-32-be
       <<117, 116, 102, 45, 51, 50, 45, 108, 101>>,                 \* utf-32-le
       <<117, 116, 102, 45, 51, 50>>,                               \* utf-32
       <<99, 112, 56, 53, 48>>,                                     \* cp850
       <<99, 112, 49, 50, 53, 48>>,                                 \* cp1250
       <<99, 112, 49, 50, 53, 49>>,                                 \* cp1251
       <<99, 112, 49, 50, 53, 51>>                                  \* cp1253
    >>

\* an argument that is the text chars, and the argument None
Str(chars) == [is_none |-> FALSE, chars |-> chars]
NoneArg == [is_none |-> TRUE, chars |-> <<>>]

\* str.upper() on ASCII text
Upper(s) == [i \in 1..Len(s) |-> IF s[i] \in 97..122 THEN s[i] - 32 ELSE s[i]]

\* str.replace("-", "_")
ReplaceHyphens(s) == [i \in 1..Len(s) |-> IF s[i] = 45 THEN 95 ELSE s[i]]

UpperUnderscore(chars) == ReplaceHyphens(Upper(chars))

\* getattr(Encoding, encoding.upper().replace("-", "_")): None has no upper(),
\* and Encoding has no attribute in capitals other than its members
GetAttr(encoding) ==
    IF encoding.is_none THEN Raised("AttributeError")
    ELSE LET attr == UpperUnderscore(encoding.chars)
             hits == {i \in 1..Len(EncodingNameChars) : EncodingNameChars[i] = attr}
         IN  IF hits = {} THEN Raised("AttributeError")
             ELSE Returned(EncodingOrder[CHOOSE i \in hits : TRUE])

\* Encoding.get without its try/except
Encoding_get_Unguarded(encoding) == GetAttr(encoding)

\* Encoding.get: the bare except turns every error into None
Encoding_get(encoding) ==
    LET r == GetAttr(encoding) IN IF r.exc # "none" THEN Returned("None") ELSE r

\* the value Encoding.get returns
EncodingGet(encoding) == Encoding_get(encoding).value

-----------------------------------------------------------------------------
(* Samples. A sample is [chunks, content]: the number of 4096-byte chunks it  *)
(* was assembled from and the byte pattern those chunks hold.                *)

\* b'Name,Age\r\n"Al",34\r\n'
TxtCsv == <<78, 97, 109, 101, 44, 65, 103, 101, 13, 10, 34, 65, 108, 34, 44, 51, 52, 13, 10>>
\* b'"x" "y"\n1 2\n'
TxtSpace == <<34, 120, 34, 32, 34, 121, 34, 10, 49, 32, 50, 10>>
\* b'\xef\xbb\xbf1;2\n3;4\n'
TxtBom == <<239, 187, 191, 49, 59, 50, 10, 51, 59, 52, 10>>
\* b'a,b\n1,2\n\xc3': a chunk that ends inside a two-byte UTF-8 character
TxtCut == <<97, 44, 98, 10, 49, 44, 50, 10, 195>>

EmptySample == [chunks |-> 0, content |-> <<>>]

\* substring count as bytes.count does it: non-overlapping, left to right
RECURSIVE Count(_, _)
Count(s, sub) ==
    IF Len(s) < Len(sub) THEN 0
    ELSE IF SubSeq(s, 1, Len(sub)) = sub
         THEN 1 + Count(SubSeq(s, Len(sub) + 1, Len(s)), sub)
         ELSE Count(Tail(s), sub)

\* strict UTF-8 validity (one- and two-byte characters, BOM bytes as a 3-byte one)
RECURSIVE ValidUtf8(_)
ValidUtf8(s) ==
    IF s = <<>> THEN TRUE
    ELSE IF s[1] < 128 THEN ValidUtf8(Tail(s))
    ELSE IF s[1] \in 194..223
         THEN Len(s) >= 2 /\ s[2] \in 128..191 /\ ValidUtf8(SubSeq(s, 3, Len(s)))
    ELSE IF s[1] \in 224..239
         THEN /\ Len(s) >= 3 /\ s[2] \in 128..191 /\ s[3] \in 128..191
              /\ ValidUtf8(SubSeq(s, 4, Len(s)))
    ELSE FALSE

\* byte values with no character in the Windows code pages
UndefinedBytes(enc) ==
    CASE enc \in {"Encoding.WINDOWS_1252", "Encoding.CP1252"} -> {129, 141, 143, 144, 157}
      [] enc = "Encoding.CP1250" -> {129, 131, 136, 144, 152}
      [] enc = "Encoding.CP1251" -> {152}
      [] enc = "Encoding.CP1253" -> {129, 136, 138, 140, 141, 142, 143, 144, 152, 154,
                                     156, 157, 158, 159, 170, 210, 255}
      [] OTHER -> {}

\* the outcome of sample.decode(encoding.value): "ok", "UnicodeDecodeError", or
\* "LookupError" where the interpreter has no codec of that name ("ansi" is an
\* alias of the Windows-only mbcs codec; decoding b'' never looks the codec up)
DecodeOutcome(enc, content) ==
    IF content = <<>> THEN "ok"
    ELSE IF enc = "Encoding.ANSI" THEN (IF ansi_codec THEN "ok" ELSE "LookupError")
    ELSE IF enc = "Encoding.ASCII"
         THEN (IF \A i \in 1..Len(content) : content[i] < 128 THEN "ok" ELSE "UnicodeDecodeError")
    ELSE IF enc \in {"Encoding.UTF_8", "Encoding.UTF_8_BOM"}
         THEN (IF ValidUtf8(content) THEN "ok" ELSE "UnicodeDecodeError")
    ELSE IF enc \in {"Encoding.UTF_16", "Encoding.UTF_16_LE", "Encoding.UTF_16_BE"}
         THEN (IF Len(content) % 2 = 0 /\ \A i \in 1..Len(content) : content[i] \notin 216..223
               THEN "ok" ELSE "UnicodeDecodeError")
    ELSE IF enc \in {"Encoding.UTF_32", "Encoding.UTF_32_LE", "Encoding.UTF_32_BE"}
         THEN "UnicodeDecodeError"
    ELSE IF \E i \in 1..Len(content) : content[i] \in UndefinedBytes(enc)
         THEN "UnicodeDecodeError"
    ELSE "ok"

\* chardet.detect(sample)['encoding'] on the contents of the model
Detect(content) ==
    CASE content = TxtCsv   -> Str(<<97, 115, 99, 105, 105>>)                   \* ascii
      [] content = TxtSpace -> Str(<<97, 115, 99, 105, 105>>)                   \* ascii
      [] content = TxtBom   -> Str(<<85, 84, 70, 45, 56, 45, 83, 73, 71>>)      \* UTF-8-SIG
      [] content = TxtCut   -> Str(<<117, 116, 102, 45, 56>>)                   \* utf-8
      [] OTHER              -> NoneArg

-----------------------------------------------------------------------------
(* The sniffer together with the File it reads, as one record m, and the     *)
(* outcomes of a call: [m, ret, exc].                                        *)

InferMethods ==
    {"infer_encoding", "infer_delimiter", "infer_line_terminator", "infer_quotechar",
     "infer_header"}

NoRuns == [f \in InferMethods |-> 0]

Self ==
    [ _encoding |-> _encoding, _delimiter |-> _delimiter,
      _line_terminator |-> _line_terminator, _lineterminator |-> _lineterminator,
      _quotechar |-> _quotechar, _header |-> _header,
      sample |-> sample, cache |-> cache, origin |-> origin,
      call_count |-> call_count,
      ran |-> NoRuns, log |-> <<>>, sniffed |-> <<>>, aged |-> 0 ]

Ok(m, v)  == [m |-> m, ret |-> v, exc |-> "none"]
Exc(m, e) == [m |-> m, ret |-> "none", exc |-> e]

\* the outcomes of: run the calls of outs, then, where one returned, F on it
Then(outs, F(_)) == UNION {IF o.exc # "none" THEN {o} ELSE F(o) : o \in outs}

\* call_counter: the thresholds of the call count and the log level past each
Limits == <<1, 10, 50, 250, 1000>>
Levels == <<10, 20, 30, 40, 50>>

\* the level the wrapper's while loop ends with
Level(count) ==
    LET passed == {i \in 1..Len(Limits) : \A j \in 1..i : count > Limits[j]}
    IN  IF passed = {} THEN 1 ELSE Levels[Cardinality(passed)]

\* the method is entered: call_count[name] += 1
Ran(m, f) == [m EXCEPT !.ran[f] = @ + 1, !.call_count[f] = @ + 1]

\* the wrapper raises RecursionError instead of calling the method
Exceeded(m, f) == Level(m.call_count[f] + 1) = 50

Refused(m, f) == {Exc(Ran(m, f), "RecursionError")}

\* the property has answered a read
Answered(m, prop) ==
    IF m.origin[prop] = "unset" THEN [m EXCEPT !.origin[prop] = "inferred"] ELSE m

CHUNK_SIZE == 4096

\* the body of File.get_random_sample: the samples a call for bytes_to_read can assemble
Assemble(bytes_to_read) ==
    LET to_read     == IF file_size < bytes_to_read THEN file_size ELSE bytes_to_read
        chunk_count == to_read \div CHUNK_SIZE
    IN  IF chunk_count = 0 THEN {EmptySample}
        ELSE {[chunks |-> chunk_count, content |-> c] : c \in file_contents}

\* how often, within one operation on the sniffer, a cache entry that was fresh
\* when the operation began is found older than 60 seconds
MaxAgeing == 1

\* the cache decorator around a method body whose possible results are fresh_values:
\* one entry per method name, kept for 60 seconds; the arguments are no part of the key.
\* An entry that is fresh may still have aged past 60 seconds by the time of the call.
Cached(m, fresh_values) ==
    (IF m.cache.fresh THEN {Ok(m, m.cache.value)} ELSE {})
    \cup
    (IF ~m.cache.fresh \/ m.aged < MaxAgeing
     THEN {Ok([m EXCEPT !.cache = [value |-> v, fresh |-> TRUE],
                        !.aged = IF m.cache.fresh THEN @ + 1 ELSE @], v)
           : v \in fresh_values}
     ELSE {})

get_random_sample(m, bytes_to_read) == Cached(m, Assemble(bytes_to_read))

\* input_type_validation(enum_class) on a property setter
IsInstance(value, enum_class) == value \in enum_class

\* the encoding setter without its input_type_validation decorator
encoding_set_Unvalidated(m, value) ==
    {Ok([m EXCEPT !._encoding = value], "none")}

encoding_set(m, value) ==
    IF ~IsInstance(value, Encoding) THEN {Exc(m, "TypeError")}
    ELSE {Ok([m EXCEPT !._encoding = value], "none")}

delimiter_set(m, value) ==
    IF ~IsInstance(value, Delimiter) THEN {Exc(m, "TypeError")}
    ELSE {Ok([m EXCEPT !._delimiter = value], "none")}

lineterminator_set(m, value) ==
    IF ~IsInstance(value, LineTerminator) THEN {Exc(m, "TypeError")}
    ELSE {Ok([m EXCEPT !._lineterminator = value], "none")}

quotechar_set(m, value) ==
    IF ~IsInstance(value, Quotechar) THEN {Exc(m, "TypeError")}
    ELSE {Ok([m EXCEPT !._quotechar = value], "none")}

header_set(m, value) ==
    IF ~IsInstance(value, Header) THEN {Exc(m, "TypeError")}
    ELSE {Ok([m EXCEPT !._header = value], "none")}

\* the encodings that decode the sample without error
Candidates(content) ==
    {e \in Encoding : DecodeOutcome(e, content) = "ok"}

\* attempt i (0..4) of infer_encoding and the attempts after it
RECURSIVE encoding_attempts(_, _)
encoding_attempts(m, i) ==
    IF i >= 5 THEN {Exc(m, "EncodingException")}
    ELSE
      LET content == m.sample.content
          guess   == EncodingGet(Detect(content))
      IN  IF \E e \in Encoding : DecodeOutcome(e, content) = "LookupError"
          THEN {Exc([m EXCEPT !.log = Append(@, [used |-> m.sample.chunks, req |-> -1])],
                    "LookupError")}
          ELSE IF guess \in Candidates(content)
          THEN {Ok([m EXCEPT !.log = Append(@, [used |-> m.sample.chunks, req |-> -1])], guess)}
          ELSE UNION
                 { encoding_attempts(
                       [o.m EXCEPT !.sample = o.ret,
                                   !.log = Append(@, [used |-> m.sample.chunks,
                                                      req |-> BYTES_TO_ANALYZE * i])],
                       i + 1)
                   : o \in get_random_sample(m, BYTES_TO_ANALYZE * i) }

infer_encoding(m) ==
    IF Exceeded(m, "infer_encoding") THEN Refused(m, "infer_encoding")
    ELSE encoding_attempts(Ran(m, "infer_encoding"), 0)

\* the maximum taken as the last member with the highest count
ArgMax_Last(order, lo, content) ==
    order[CHOOSE i \in lo..Len(order) :
             /\ \A j \in lo..Len(order) :
                    Count(content, EnumValue(order[j])) <= Count(content, EnumValue(order[i]))
             /\ \A j \in (i+1)..Len(order) :
                    Count(content, EnumValue(order[j])) < Count(content, EnumValue(order[i]))]

\* max(counts, key=counts.get) over the members of order from index lo on:
\* the first member with the highest count
ArgMax(order, lo, content) ==
    order[CHOOSE i \in lo..Len(order) :
             /\ \A j \in lo..Len(order) :
                    Count(content, EnumValue(order[j])) <= Count(content, EnumValue(order[i]))
             /\ \A j \in lo..(i-1) :
                    Count(content, EnumValue(order[j])) < Count(content, EnumValue(order[i]))]

infer_delimiter(m) ==
    IF Exceeded(m, "infer_delimiter") THEN Refused(m, "infer_delimiter") ELSE
    {Ok(Ran(m, "infer_delimiter"), ArgMax(DelimiterOrder, 2, m.sample.content))}

\* infer_line_terminator without its LF = CR rule
infer_line_terminator_NoTieRule(m) ==
    IF Exceeded(m, "infer_line_terminator") THEN Refused(m, "infer_line_terminator") ELSE
    LET content == m.sample.content
        crlf == Count(content, <<13, 10>>)
        lf   == Count(content, <<10>>)
        cr   == Count(content, <<13>>)
        r    == IF 10 * crlf > 10 * lf + 9 * cr THEN "LineTerminator.CRLF"
                ELSE ArgMax(LineTerminatorOrder, 1, content)
    IN  {Ok(Ran(m, "infer_line_terminator"), r)}

\* infer_line_terminator comparing the pairs with the \n and \r outside pairs
infer_line_terminator_LoneCounts(m) ==
    IF Exceeded(m, "infer_line_terminator") THEN Refused(m, "infer_line_terminator") ELSE
    LET content == m.sample.content
        crlf == Count(content, <<13, 10>>)
        lf   == Count(content, <<10>>) - crlf
        cr   == Count(content, <<13>>) - crlf
        r    == IF 10 * crlf > 10 * lf + 9 * cr THEN "LineTerminator.CRLF"
                ELSE IF lf = cr THEN "LineTerminator.CRLF"
                ELSE ArgMax(LineTerminatorOrder, 1, content)
    IN  {Ok(Ran(m, "infer_line_terminator"), r)}

infer_line_terminator(m) ==
    IF Exceeded(m, "infer_line_terminator") THEN Refused(m, "infer_line_terminator") ELSE
    LET content == m.sample.content
        crlf == Count(content, <<13, 10>>)
        lf   == Count(content, <<10>>)
        cr   == Count(content, <<13>>)
        r    == IF 10 * crlf > 10 * lf + 9 * cr THEN "LineTerminator.CRLF"
                ELSE IF lf = cr THEN "LineTerminator.CRLF"
                ELSE ArgMax(LineTerminatorOrder, 1, content)
    IN  {Ok(Ran(m, "infer_line_terminator"), r)}

\* the property getters
encoding_get(m) ==
    LET Store(o)  == encoding_set(o.m, o.ret)
        Return(o) == {Ok(Answered(o.m, "encoding"), o.m._encoding)}
    IN  IF m._encoding = "unset"
        THEN Then(Then(infer_encoding(m), Store), Return)
        ELSE Return(Ok(m, "none"))

delimiter_get(m) ==
    LET Store(o)  == delimiter_set(o.m, o.ret)
        Return(o) == {Ok(Answered(o.m, "delimiter"), o.m._delimiter)}
    IN  IF m._delimiter = "unset"
        THEN Then(Then(infer_delimiter(m), Store), Return)
        ELSE Return(Ok(m, "none"))

lineterminator_get(m) ==
    LET Store(o)  == lineterminator_set(o.m, o.ret)
        Return(o) == IF o.m._lineterminator = "unset"
                     THEN {Exc(o.m, "AttributeError")}
                     ELSE {Ok(Answered(o.m, "lineterminator"), o.m._lineterminator)}
    IN  IF m._line_terminator = "unset"
        THEN Then(Then(infer_line_terminator(m), Store), Return)
        ELSE Return(Ok(m, "none"))

\* str(codecs.iterdecode(BytesIO(sample), encoding)): the repr of a generator
\* object, "<generator object iterdecode at 0x7f0000000000>", whatever the
\* sample holds (the address differs from run to run; nothing depends on it)
GeneratorRepr ==
    << 60, 103, 101, 110, 101, 114, 97, 116, 111, 114, 32, 111, 98, 106, 101, 99,
       116, 32, 105, 116, 101, 114, 100, 101, 99, 111, 100, 101, 32, 97, 116, 32,
       48, 120, 55, 102, 48, 48, 48, 48, 48, 48, 48, 48, 48, 48, 62 >>

\* csv.Sniffer().sniff(text, delimiters).quotechar on the text above: a dialect
\* with the default quotechar '"' when the blank is among the delimiters
\* (delimiters None allows every character), csv.Error otherwise
Sniff(text, delimiters) ==
    IF text = GeneratorRepr /\ delimiters \in {"Delimiter.SPACE", "Delimiter.NONE"}
    THEN "Quotechar.DOUBLE_QUOTE"
    ELSE "csv.Error"

infer_quotechar(m) ==
    IF Exceeded(m, "infer_quotechar") THEN Refused(m, "infer_quotechar") ELSE
    LET Counts(o) ==
            LET content == o.m.sample.content
                Sniffed(d) ==
                    LET q == Sniff(GeneratorRepr, d.ret)
                    IN  {Ok([d.m EXCEPT !.sniffed = Append(@, GeneratorRepr)],
                            IF q = "csv.Error" THEN "Quotechar.NONE" ELSE q)}
                Delim(e) == delimiter_get(e.m)
            IN  IF \A i \in 1..3 : Count(content, EnumValue(QuotecharOrder[i])) = 0
                THEN {Ok(o.m, "Quotechar.NONE")}
                ELSE Then(Then(encoding_get(o.m), Delim), Sniffed)
    IN  Then(encoding_get(Ran(m, "infer_quotechar")), Counts)

quotechar_get(m) ==
    LET Store(o)  == quotechar_set(o.m, o.ret)
        Return(o) == {Ok(Answered(o.m, "quotechar"), o.m._quotechar)}
    IN  IF m._quotechar = "unset"
        THEN Then(Then(infer_quotechar(m), Store), Return)
        ELSE Return(Ok(m, "none"))

-----------------------------------------------------------------------------
(* get_data_type and the row parsing of infer_header.                        *)

IsDigits(f) == Len(f) > 0 /\ \A i \in 1..Len(f) : f[i] \in 48..57

Unsigned(f) == IF Len(f) > 0 /\ f[1] \in {43, 45} THEN Tail(f) ELSE f

\* int(field) succeeds
IsInt(f) == IsDigits(Unsigned(f))

\* float(field) succeeds: digits around one decimal point
IsFloat(f) ==
    LET u == Unsigned(f)
    IN  \/ IsInt(f)
        \/ /\ CountByte(u, 46) = 1
           /\ Len(u) > 1
           /\ \A i \in 1..Len(u) : u[i] \in 48..57 \/ u[i] = 46

\* datetime.strptime(field, form) succeeds for one of the date-only formats
\* %d-%m-%Y, %Y-%m-%d, %Y/%m/%d written with two-digit day and month
IsDate(f) ==
    /\ Len(f) = 10
    /\ \/ /\ f[3] = 45 /\ f[6] = 45
          /\ IsDigits(SubSeq(f, 1, 2)) /\ IsDigits(SubSeq(f, 4, 5)) /\ IsDigits(SubSeq(f, 7, 10))
       \/ /\ f[5] \in {45, 47} /\ f[8] = f[5]
          /\ IsDigits(SubSeq(f, 1, 4)) /\ IsDigits(SubSeq(f, 6, 7)) /\ IsDigits(SubSeq(f, 9, 10))

get_data_type(field) ==
    IF IsInt(field) THEN "int"
    ELSE IF IsFloat(field) THEN "float"
    ELSE IF IsDate(field) THEN "datetime"
    ELSE "str"

\* body(value), with value computed once
With(value, body(_)) == CHOOSE r \in {body(v) : v \in {value}} : TRUE

\* the k-th smallest member of a set of integers
Nth(S, k) == CHOOSE i \in S : Cardinality({j \in S : j < i}) = k - 1

\* the pieces of s between occurrences of the byte sep
Split(s, sep) ==
    LET cuts == {0} \cup {i \in 1..Len(s) : s[i] = sep} \cup {Len(s) + 1}
    IN  [k \in 1..(Cardinality(cuts) - 1) |->
            SubSeq(s, Nth(cuts, k) + 1, Nth(cuts, k + 1) - 1)]

\* iteration over BytesIO(sample): the lines, each with its b'\n'
ByteLines(s) ==
    LET ends == {0} \cup {i \in 1..Len(s) : s[i] = 10} \cup {Len(s)}
    IN  [k \in 1..(Cardinality(ends) - 1) |->
            SubSeq(s, Nth(ends, k) + 1, Nth(ends, k + 1))]

\* the characters one line decodes to (code points; a one-byte code page is
\* taken as Latin-1, utf-8-sig drops a leading byte order mark)
RECURSIVE Utf8Chars(_)
Utf8Chars(s) ==
    IF s = <<>> THEN <<>>
    ELSE IF s[1] < 128 THEN <<s[1]>> \o Utf8Chars(Tail(s))
    ELSE IF s[1] \in 194..223
         THEN <<(s[1] - 192) * 64 + (s[2] - 128)>> \o Utf8Chars(SubSeq(s, 3, Len(s)))
    ELSE <<(s[1] - 224) * 4096 + (s[2] - 128) * 64 + (s[3] - 128)>>
             \o Utf8Chars(SubSeq(s, 4, Len(s)))

DecodeChars(enc, line, is_first) ==
    IF enc = "Encoding.UTF_8" THEN Utf8Chars(line)
    ELSE IF enc = "Encoding.UTF_8_BOM"
         THEN (IF is_first /\ StartsWith(line, <<239, 187, 191>>)
               THEN Utf8Chars(SubSeq(line, 4, Len(line)))
               ELSE Utf8Chars(line))
    ELSE line

\* a field as csv.reader yields it: the quotes of a quoted field removed
Unquote(f, q) ==
    IF Len(f) >= 2 /\ f[1] = q /\ f[Len(f)] = q THEN SubSeq(f, 2, Len(f) - 1) ELSE f

\* where the reader ends the record: the first \r or \n of the line, or past its end
RecordEnd(chars) ==
    IF \E i \in 1..Len(chars) : chars[i] \in {10, 13}
    THEN Nth({i \in 1..Len(chars) : chars[i] \in {10, 13}}, 1)
    ELSE Len(chars) + 1

\* what next(reader) gives for one line: [err, row]; a character other than \r
\* and \n after the record's end is "new-line character seen in unquoted field"
CsvRow(enc, line, is_first, delim, q) ==
    LET Fields(pieces) == [i \in 1..Len(pieces) |-> Unquote(pieces[i], q)]
        Parse(chars) ==
            LET body == SubSeq(chars, 1, RecordEnd(chars) - 1)
            IN  IF \E i \in (RecordEnd(chars) + 1)..Len(chars) : chars[i] \notin {10, 13}
                THEN [err |-> "csv.Error", row |-> <<>>]
                ELSE IF body = <<>> THEN [err |-> "none", row |-> <<>>]
                ELSE [err |-> "none", row |-> With(Split(body, delim), Fields)]
    IN  IF DecodeOutcome(enc, line) # "ok"
        THEN [err |-> DecodeOutcome(enc, line), row |-> <<>>]
        ELSE With(DecodeChars(enc, line, is_first), Parse)

\* infer_header answering TRUE on any differing column, without the 10% threshold
HeaderOf_AnyDifference(content, enc, delimiter, quotechar) ==
    LET q == IF quotechar = "Quotechar.NONE" THEN 34 ELSE EnumValue(quotechar)[1]
        Compare(rows) ==
            LET first_row_data_types ==
                    [i \in 1..Len(rows[1].row) |-> get_data_type(rows[1].row[i])]
                n == Len(rows[1].row)
                bad == {k \in 2..Len(rows) : rows[k].err # "none"}
                differing ==
                    {i \in 1..n : first_row_data_types[i] # get_data_type(rows[2].row[i])}
            IN  IF rows[1].err # "none" THEN [ret |-> "none", exc |-> rows[1].err]
                ELSE IF \E i \in 1..n : first_row_data_types[i] # "str"
                     THEN [ret |-> "Header.FALSE", exc |-> "none"]
                ELSE IF bad # {}
                     THEN [ret |-> "none", exc |-> rows[Nth(bad, 1)].err]
                ELSE IF n = 0 THEN [ret |-> "none", exc |-> "ZeroDivisionError"]
                ELSE IF Len(rows) < 2 \/ Len(rows[2].row) < n
                     THEN [ret |-> "none", exc |-> "KeyError"]
                ELSE IF Cardinality(differing) > 0
                     THEN [ret |-> "Header.TRUE", exc |-> "none"]
                ELSE [ret |-> "Header.FALSE", exc |-> "none"]
        Read(lines) ==
            LET Row(k) == CsvRow(enc, lines[k], k = 1, EnumValue(delimiter)[1], q)
            IN  IF Len(lines) = 0 THEN [ret |-> "none", exc |-> "StopIteration"]
                ELSE With([k \in 1..Len(lines) |-> Row(k)], Compare)
    IN  IF delimiter = "Delimiter.NONE" THEN [ret |-> "none", exc |-> "TypeError"]
        ELSE IF enc = "Encoding.ANSI" /\ ~ansi_codec
             THEN [ret |-> "none", exc |-> "LookupError"]
        ELSE With(ByteLines(content), Read)

\* infer_header comparing the first row with the last row of the sample
HeaderOf_LastRow(content, enc, delimiter, quotechar) ==
    LET q == IF quotechar = "Quotechar.NONE" THEN 34 ELSE EnumValue(quotechar)[1]
        Compare(rows) ==
            LET first_row_data_types ==
                    [i \in 1..Len(rows[1].row) |-> get_data_type(rows[1].row[i])]
                n == Len(rows[1].row)
                bad == {k \in 2..Len(rows) : rows[k].err # "none"}
                differing ==
                    {i \in 1..n : first_row_data_types[i] # get_data_type(rows[Len(rows)].row[i])}
            IN  IF rows[1].err # "none" THEN [ret |-> "none", exc |-> rows[1].err]
                ELSE IF \E i \in 1..n : first_row_data_types[i] # "str"
                     THEN [ret |-> "Header.FALSE", exc |-> "none"]
                ELSE IF bad # {}
                     THEN [ret |-> "none", exc |-> rows[Nth(bad, 1)].err]
                ELSE IF n = 0 THEN [ret |-> "none", exc |-> "ZeroDivisionError"]
                ELSE IF Len(rows) < 2 \/ Len(rows[Len(rows)].row) < n
                     THEN [ret |-> "none", exc |-> "KeyError"]
                ELSE IF 10 * Cardinality(differing) > n
                     THEN [ret |-> "Header.TRUE", exc |-> "none"]
                ELSE [ret |-> "Header.FALSE", exc |-> "none"]
        Read(lines) ==
            LET Row(k) == CsvRow(enc, lines[k], k = 1, EnumValue(delimiter)[1], q)
            IN  IF Len(lines) = 0 THEN [ret |-> "none", exc |-> "StopIteration"]
                ELSE With([k \in 1..Len(lines) |-> Row(k)], Compare)
    IN  IF delimiter = "Delimiter.NONE" THEN [ret |-> "none", exc |-> "TypeError"]
        ELSE IF enc = "Encoding.ANSI" /\ ~ansi_codec
             THEN [ret |-> "none", exc |-> "LookupError"]
        ELSE With(ByteLines(content), Read)

\* the body of infer_header once the four dialect values are in hand
HeaderOf(content, enc, delimiter, quotechar) ==
    LET q == IF quotechar = "Quotechar.NONE" THEN 34 ELSE EnumValue(quotechar)[1]
        Compare(rows) ==
            LET first_row_data_types ==
                    [i \in 1..Len(rows[1].row) |-> get_data_type(rows[1].row[i])]
                n == Len(rows[1].row)
                bad == {k \in 2..Len(rows) : rows[k].err # "none"}
                differing ==
                    {i \in 1..n : first_row_data_types[i] # get_data_type(rows[2].row[i])}
            IN  IF rows[1].err # "none" THEN [ret |-> "none", exc |-> rows[1].err]
                ELSE IF \E i \in 1..n : first_row_data_types[i] # "str"
                     THEN [ret |-> "Header.FALSE", exc |-> "none"]
                ELSE IF bad # {}
                     THEN [ret |-> "none", exc |-> rows[Nth(bad, 1)].err]
                ELSE IF n = 0 THEN [ret |-> "none", exc |-> "ZeroDivisionError"]
                ELSE IF Len(rows) < 2 \/ Len(rows[2].row) < n
                     THEN [ret |-> "none", exc |-> "KeyError"]
                ELSE IF 10 * Cardinality(differing) > n
                     THEN [ret |-> "Header.TRUE", exc |-> "none"]
                ELSE [ret |-> "Header.FALSE", exc |-> "none"]
        Read(lines) ==
            LET Row(k) == CsvRow(enc, lines[k], k = 1, EnumValue(delimiter)[1], q)
            IN  IF Len(lines) = 0 THEN [ret |-> "none", exc |-> "StopIteration"]
                ELSE With([k \in 1..Len(lines) |-> Row(k)], Compare)
    IN  IF delimiter = "Delimiter.NONE" THEN [ret |-> "none", exc |-> "TypeError"]
        ELSE IF enc = "Encoding.ANSI" /\ ~ansi_codec
             THEN [ret |-> "none", exc |-> "LookupError"]
        ELSE With(ByteLines(content), Read)

infer_header(m) ==
    IF Exceeded(m, "infer_header") THEN Refused(m, "infer_header") ELSE
    LET \* the dialect values the csv reader is created with
        Dialect(quote, delim, enc) ==
            {Ok(enc.m, [quotechar |-> quote.ret, delimiter |-> delim.ret,
                        encoding |-> enc.ret])}
        WithEnc(quote, delim) ==
            LET P(enc) == Dialect(quote, delim, enc)
            IN  Then(encoding_get(delim.m), P)
        \* self.quotechar is read once more where it is not NONE
        Again(quote, delim, lt) ==
            LET W(q2) == WithEnc(q2, [delim EXCEPT !.m = q2.m])
            IN  IF quote.ret = "Quotechar.NONE"
                THEN WithEnc(quote, [delim EXCEPT !.m = lt.m])
                ELSE Then(quotechar_get(lt.m), W)
        WithLt(quote, delim) ==
            LET A(lt) == Again(quote, delim, lt)
            IN  Then(lineterminator_get(delim.m), A)
        WithDelim(quote) ==
            LET L(delim) == WithLt(quote, delim)
            IN  Then(delimiter_get(quote.m), L)
        Parse(d) ==
            LET Outcome(h) == [m |-> d.m, ret |-> h.ret, exc |-> h.exc]
            IN  With(HeaderOf(d.m.sample.content, d.ret.encoding, d.ret.delimiter,
                              d.ret.quotechar), Outcome)
    IN  {IF d.exc # "none" THEN d ELSE Parse(d)
         : d \in Then(quotechar_get(Ran(m, "infer_header")), WithDelim)}

header_get(m) ==
    LET Store(o)  == header_set(o.m, o.ret)
        Return(o) == {Ok(Answered(o.m, "header"), o.m._header)}
    IN  IF m._header = "unset"
        THEN Then(Then(infer_header(m), Store), Return)
        ELSE Return(Ok(m, "none"))

-----------------------------------------------------------------------------
(* The sniffer as a state machine: reads and assignments of the five         *)
(* properties of one FileSniffer, and the passing of time.                   *)

Properties == {"encoding", "delimiter", "lineterminator", "quotechar", "header"}

\* sizes of the file: smaller than one chunk, and larger than every request
FileSizes == {100, 70000}

\* what whole chunks of the file can hold: one pattern throughout, or, for a
\* UTF-8 file, chunks that end inside a character beside chunks that do not
ContentSets == {{TxtCsv}, {TxtSpace}, {TxtBom}, {TxtCut, TxtCsv}}

\* the byte budgets a sniffer is constructed with: the default (bytes=None), and
\* an explicit bytes=8192
ByteBudgets == {16184, 8192}

\* the values callers assign: a member of the enum, a bare string, a member of
\* another enum
Assigned(prop) ==
    CASE prop = "encoding"       -> {"Encoding.LATIN_1", "utf-8", "Delimiter.COMMA"}
      [] prop = "delimiter"      -> {"Delimiter.SEMICOLON", ";", "Quotechar.NONE"}
      [] prop = "lineterminator" -> {"LineTerminator.LF", "\n", "Delimiter.TAB"}
      [] prop = "quotechar"      -> {"Quotechar.SINGLE_QUOTE", "'", "Header.TRUE"}
      [] prop = "header"         -> {"Header.FALSE", "False", "Encoding.UTF_8"}

\* the record of an operation: what was called with what, what it returned or
\* raised, the property's origin and stored value before it, the inference
\* methods it ran, the attempts of infer_encoding and the texts handed to
\* csv.Sniffer
NoOp ==
    [op |-> "none", prop |-> "none", arg |-> "none", ret |-> "none", exc |-> "none",
     prior |-> "none", held |-> "none", ran |-> NoRuns, log |-> <<>>,
     sniffed |-> <<>>]

\* the attribute a property's setter stores and its getter returns
Stored(prop) ==
    CASE prop = "encoding"       -> _encoding
      [] prop = "delimiter"      -> _delimiter
      [] prop = "lineterminator" -> _lineterminator
      [] prop = "quotechar"      -> _quotechar
      [] prop = "header"         -> _header

\* FileSniffer.__init__ on a File that has none of the underscore attributes:
\* the first sample is drawn for the class's BYTES_TO_ANALYZE, then the budget is set
Init ==
    /\ path_suffix = ""
    /\ file_lines = <<>>
    /\ result = NoResult
    /\ ops = 0
    /\ ansi_codec \in BOOLEAN
    /\ file_size \in FileSizes
    /\ file_contents \in ContentSets
    /\ file_size < CHUNK_SIZE => file_contents = {TxtCsv}
    /\ BYTES_TO_ANALYZE \in ByteBudgets
    /\ sample \in Assemble(16184)
    /\ cache = [value |-> sample, fresh |-> TRUE]
    /\ _encoding = "unset"
    /\ _delimiter = "unset"
    /\ _line_terminator = "unset"
    /\ _lineterminator = "unset"
    /\ _quotechar = "unset"
    /\ _header = "unset"
    /\ call_count = NoRuns
    /\ origin = [p \in Properties |-> "unset"]
    /\ last = NoOp
    /\ LibAbsent

\* the number of operations a run makes on one sniffer
MaxOps == 2

Install(m) ==
    /\ ops' = ops + 1
    /\ _encoding' = m._encoding
    /\ _delimiter' = m._delimiter
    /\ _line_terminator' = m._line_terminator
    /\ _lineterminator' = m._lineterminator
    /\ _quotechar' = m._quotechar
    /\ _header' = m._header
    /\ sample' = m.sample
    /\ cache' = m.cache
    /\ origin' = m.origin
    /\ call_count' = m.call_count
    /\ UNCHANGED <<ansi_codec, file_size, file_contents, BYTES_TO_ANALYZE>>
    /\ UNCHANGED <<typeVars, libVars>>

\* value = sniffer.<prop>
Read(prop, outs) ==
    /\ ops < MaxOps
    /\ \E o \in outs :
        /\ Install(o.m)
        /\ last' = [op |-> "read", prop |-> prop, arg |-> "none", ret |-> o.ret,
                    exc |-> o.exc, prior |-> origin[prop], held |-> Stored(prop),
                    ran |-> o.m.ran, log |-> o.m.log, sniffed |-> o.m.sniffed]

\* sniffer.<prop> = value
Assign(prop, value, outs) ==
    /\ ops < MaxOps
    /\ \E o \in outs :
        /\ Install(IF o.exc = "none" THEN [o.m EXCEPT !.origin[prop] = value] ELSE o.m)
        /\ last' = [op |-> "set", prop |-> prop, arg |-> value, ret |-> "none",
                    exc |-> o.exc, prior |-> origin[prop], held |-> Stored(prop),
                    ran |-> o.m.ran, log |-> o.m.log, sniffed |-> o.m.sniffed]

ReadEncoding       == Read("encoding", encoding_get(Self))
ReadDelimiter      == Read("delimiter", delimiter_get(Self))
ReadLineterminator == Read("lineterminator", lineterminator_get(Self))
ReadQuotechar      == Read("quotechar", quotechar_get(Self))
ReadHeader         == Read("header", header_get(Self))

SetEncoding ==
    \E v \in Assigned("encoding") : Assign("encoding", v, encoding_set(Self, v))
SetDelimiter ==
    \E v \in Assigned("delimiter") : Assign("delimiter", v, delimiter_set(Self, v))
SetLineterminator ==
    \E v \in Assigned("lineterminator") :
        Assign("lineterminator", v, lineterminator_set(Self, v))
SetQuotechar ==
    \E v \in Assigned("quotechar") : Assign("quotechar", v, quotechar_set(Self, v))
SetHeader ==
    \E v \in Assigned("header") : Assign("header", v, header_set(Self, v))

\* the sizes other callers ask File.get_random_sample for
SampleRequests == {16184, 32368}

\* file.get_random_sample(bytes_to_read), called on the File directly
GetRandomSample ==
    /\ ops < MaxOps
    /\ \E n \in SampleRequests : \E o \in get_random_sample(Self, n) :
        /\ Install(o.m)
        /\ last' = [NoOp EXCEPT !.op = "get_random_sample", !.arg = n, !.ret = o.ret]

\* more than 60 seconds go by since the cache entry was stored
TimePasses ==
    /\ cache.fresh
    /\ ops < MaxOps
    /\ ops' = ops + 1
    /\ cache' = [cache EXCEPT !.fresh = FALSE]
    /\ last' = [NoOp EXCEPT !.op = "wait"]
    /\ UNCHANGED <<ansi_codec, file_size, file_contents, BYTES_TO_ANALYZE, sample,
                   _encoding, _delimiter, _line_terminator, _lineterminator,
                   _quotechar, _header, call_count, origin>>
    /\ UNCHANGED <<typeVars, libVars>>

Next ==
    \/ ReadEncoding
    \/ ReadDelimiter
    \/ ReadLineterminator
    \/ ReadQuotechar
    \/ ReadHeader
    \/ SetEncoding
    \/ SetDelimiter
    \/ SetLineterminator
    \/ SetQuotechar
    \/ SetHeader
    \/ GetRandomSample
    \/ TimePasses

Spec == Init /\ [][Next]_vars

-----------------------------------------------------------------------------
(* The infer_* methods called directly, on samples drawn from bounded sets.  *)
(* A sample is written as the bytes one stretch of it holds; a sample that   *)
(* repeats the stretch between filler bytes has the same counts in           *)
(* proportion and the same first rows.                                       *)

\* the longest stretch of line ends, of delimiters; the widest row, the most rows
MaxEolLen == 5
MaxDelimLen == 3
MaxFields == 2
MaxRows == 2

SeqsUpTo(S, n) == UNION {[1..k -> S] : k \in 0..n}

\* stretches of \r, \n and the letter a
EolTexts == SeqsUpTo({13, 10, 97}, MaxEolLen)

\* stretches of , ; tab, blank and the letter a
DelimTexts == SeqsUpTo({44, 59, 9, 32, 97}, MaxDelimLen)

\* the fields a row is made of: a, 1, 1.5, 2020-01-01
FieldTexts ==
    { <<97>>, <<49>>, <<49, 46, 53>>, <<50, 48, 50, 48, 45, 48, 49, 45, 48, 49>> }

RECURSIVE JoinFields(_)
JoinFields(fields) ==
    IF fields = <<>> THEN <<>>
    ELSE IF Len(fields) = 1 THEN fields[1]
    ELSE fields[1] \o <<44>> \o JoinFields(Tail(fields))

\* the comma-separated text of rows, each ended by \n
RECURSIVE RowsText(_)
RowsText(rows) ==
    IF rows = <<>> THEN <<>>
    ELSE JoinFields(Head(rows)) \o <<10>> \o RowsText(Tail(rows))

\* ten labels over a row that holds k numbers
WideRows(k) ==
    << [i \in 1..10 |-> <<97>>], [i \in 1..10 |-> IF i <= k THEN <<49>> ELSE <<97>>] >>

\* two rows of one field each and a third row after them
LaterRowSets ==
    { << <<f>>, <<g>>, later >> :
        f \in FieldTexts, g \in FieldTexts, later \in SeqsUpTo(FieldTexts, MaxFields) }

RowSets ==
    {rows \in SeqsUpTo(SeqsUpTo(FieldTexts, MaxFields), MaxRows) : Len(rows) > 0}
        \cup {WideRows(k) : k \in 0..2}
        \cup LaterRowSets

RowTexts == {RowsText(rows) : rows \in RowSets}

SampleTexts == EolTexts \cup DelimTexts \cup RowTexts

\* a sniffer on a sample of the text, with encoding, delimiter and quote
\* character assigned (utf-8, comma, none)
InitInfer ==
    /\ path_suffix = ""
    /\ file_lines = <<>>
    /\ result = NoResult
    /\ ops = 0
    /\ ansi_codec = TRUE
    /\ file_size = CHUNK_SIZE
    /\ \E text \in SampleTexts :
          /\ file_contents = {text}
          /\ sample = [chunks |-> 1, content |-> text]
    /\ BYTES_TO_ANALYZE = 16184
    /\ cache = [value |-> sample, fresh |-> TRUE]
    /\ _encoding = "Encoding.UTF_8"
    /\ _delimiter = "Delimiter.COMMA"
    /\ _line_terminator = "unset"
    /\ _lineterminator = "unset"
    /\ _quotechar = "Quotechar.NONE"
    /\ _header = "unset"
    /\ call_count = NoRuns
    /\ origin = [p \in Properties |->
                   CASE p = "encoding"  -> "Encoding.UTF_8"
                     [] p = "delimiter" -> "Delimiter.COMMA"
                     [] p = "quotechar" -> "Quotechar.NONE"
                     [] OTHER           -> "unset"]
    /\ last = NoOp
    /\ LibAbsent

\* sniffer.<infer method>()
CallInfer(method, outs) ==
    /\ ops < MaxOps
    /\ \E o \in outs :
        /\ Install(o.m)
        /\ last' = [NoOp EXCEPT !.op = method, !.ret = o.ret, !.exc = o.exc,
                                !.ran = o.m.ran, !.log = o.m.log,
                                !.sniffed = o.m.sniffed]

CallInferLineTerminator == CallInfer("infer_line_terminator", infer_line_terminator(Self))
CallInferDelimiter      == CallInfer("infer_delimiter", infer_delimiter(Self))
CallInferHeader         == CallInfer("infer_header", infer_header(Self))

NextInfer ==
    \/ CallInferLineTerminator
    \/ CallInferDelimiter
    \/ CallInferHeader

SpecInfer == InitInfer /\ [][NextInfer]_vars

-----------------------------------------------------------------------------
(* One inference method called over and over on one sniffer.                 *)

\* the number of calls a run makes
MaxCalls == 1001

CallTexts == {TxtCsv, TxtSpace, TxtBom}

\* a sniffer on a sample of the text, with encoding, delimiter and quote
\* character assigned, on which no inference method has been called yet
InitCalls ==
    /\ path_suffix = ""
    /\ file_lines = <<>>
    /\ result = NoResult
    /\ ops = 0
    /\ ansi_codec = TRUE
    /\ file_size = CHUNK_SIZE
    /\ \E text \in CallTexts :
          /\ file_contents = {text}
          /\ sample = [chunks |-> 1, content |-> text]
    /\ BYTES_TO_ANALYZE = 16184
    /\ cache = [value |-> sample, fresh |-> TRUE]
    /\ _encoding = "Encoding.UTF_8"
    /\ _delimiter = "Delimiter.COMMA"
    /\ _line_terminator = "unset"
    /\ _lineterminator = "unset"
    /\ _quotechar = "Quotechar.NONE"
    /\ _header = "unset"
    /\ call_count = NoRuns
    /\ origin = [p \in Properties |->
                   CASE p = "encoding"  -> "Encoding.UTF_8"
                     [] p = "delimiter" -> "Delimiter.COMMA"
                     [] p = "quotechar" -> "Quotechar.NONE"
                     [] OTHER           -> "unset"]
    /\ last = NoOp
    /\ LibAbsent

\* sniffer.<infer method>(), in a run that calls this one method only
CallAgain(method, outs) ==
    /\ ops < MaxCalls
    /\ last.op \in {"none", method}
    /\ \E o \in outs :
        /\ Install(o.m)
        /\ last' = [NoOp EXCEPT !.op = method, !.ret = o.ret, !.exc = o.exc,
                                !.ran = o.m.ran, !.log = o.m.log,
                                !.sniffed = o.m.sniffed]

CallAgainEncoding       == CallAgain("infer_encoding", infer_encoding(Self))
CallAgainDelimiter      == CallAgain("infer_delimiter", infer_delimiter(Self))
CallAgainLineTerminator == CallAgain("infer_line_terminator", infer_line_terminator(Self))
CallAgainQuotechar      == CallAgain("infer_quotechar", infer_quotechar(Self))
CallAgainHeader         == CallAgain("infer_header", infer_header(Self))

NextCalls ==
    \/ CallAgainEncoding
    \/ CallAgainDelimiter
    \/ CallAgainLineTerminator
    \/ CallAgainQuotechar
    \/ CallAgainHeader

SpecCalls == InitCalls /\ [][NextCalls]_vars

\* C22: an inference method called again on one sniffer whose sample is
\* unchanged returns what the call before it returned, and does not fail when
\* that call succeeded, however many calls were made before.
C22_RepeatedCallsAgree ==
    [][ (/\ last.op \in InferMethods
         /\ last'.op = last.op
         /\ last.exc = "none"
         /\ sample' = sample)
            => (last'.exc = "none" /\ last'.ret = last.ret) ]_vars

-----------------------------------------------------------------------------
(* Claims about the sniffer and the sample provider, checked under Spec.     *)

InferOf(prop) ==
    CASE prop = "encoding"       -> "infer_encoding"
      [] prop = "delimiter"      -> "infer_delimiter"
      [] prop = "lineterminator" -> "infer_line_terminator"
      [] prop = "quotechar"      -> "infer_quotechar"
      [] prop = "header"         -> "infer_header"
      [] OTHER                   -> "infer_header"

EnumOf(prop) ==
    CASE prop = "encoding"       -> Encoding
      [] prop = "delimiter"      -> Delimiter
      [] prop = "lineterminator" -> LineTerminator
      [] prop = "quotechar"      -> Quotechar
      [] prop = "header"         -> Header
      [] OTHER                   -> {}

\* C5: over reads of a property with no explicit assignment in between, the
\* property's infer_* method runs exactly once, on the first read; a read of a
\* property that has already answered a read runs no inference and returns the
\* stored value.
C5_InferExactlyOnce ==
    (last.op = "read")
        => /\ last.prior = "unset" => last.ran[InferOf(last.prop)] = 1
           /\ last.prior = "inferred"
                 => /\ last.ran[InferOf(last.prop)] = 0
                    /\ last.exc = "none"
                    /\ last.ret = last.held

\* C6: after an explicit assignment of a valid member v, a read of the property
\* returns v and does not run the property's infer_* method.
C6_ExplicitValueKept ==
    (last.op = "read" /\ last.prior \in EnumOf(last.prop))
        => /\ last.exc = "none"
           /\ last.ret = last.prior
           /\ last.ran[InferOf(last.prop)] = 0

storedAttributes ==
    <<_encoding, _delimiter, _line_terminator, _lineterminator, _quotechar, _header>>

\* C7: an assignment of a value that is not a member of the property's enum
\* fails with TypeError and leaves every stored property value unchanged.
C7_InvalidAssignmentRejected ==
    [][ (last'.op = "set" /\ last'.arg \notin EnumOf(last'.prop))
            => (last'.exc = "TypeError" /\ UNCHANGED storedAttributes) ]_vars

\* an invalid assignment has been rejected on a property that holds a value
C7_Witness ==
    /\ last.op = "set"
    /\ last.arg \notin EnumOf(last.prop)
    /\ last.exc = "TypeError"
    /\ last.held \in EnumOf(last.prop)

\* C8: a run of infer_encoding makes at most 5 attempts; it returns the guessed
\* encoding only if that is among the candidates of the attempt's sample; and
\* if none of the 5 attempts succeeds it ends by raising EncodingException.
C8_EncodingAttempts ==
    (last.ran["infer_encoding"] > 0)
        => /\ Len(last.log) \in 1..5
           /\ \/ /\ last.exc = "EncodingException"
                 /\ Len(last.log) = 5
                 /\ \A k \in 1..5 : last.log[k].req >= 0
              \/ /\ last.log[Len(last.log)].req = -1
                 /\ \A k \in 1..(Len(last.log) - 1) : last.log[k].req >= 0
                 /\ _encoding = EncodingGet(Detect(sample.content))
                 /\ _encoding \in Candidates(sample.content)

\* C9: after every failed attempt the sample is replaced by a re-sample of
\* BYTES_TO_ANALYZE x attempt_index bytes that is larger than the sample the
\* failed attempt used: the request is never for fewer bytes than that sample
\* holds, and never for none.
C9_ResampleLarger ==
    \A k \in 1..Len(last.log) :
        last.log[k].req # -1
            => /\ last.log[k].req > 0
               /\ last.log[k].req > CHUNK_SIZE * last.log[k].used

\* C10: a call of get_random_sample for a size larger than the size of the
\* first call returns a sample assembled for the size it is given.
C10_SampleForRequestedSize ==
    (last.op = "get_random_sample" /\ last.arg > 16184)
        => last.ret.chunks = Min(last.arg, file_size) \div CHUNK_SIZE


\* C11: for a file smaller than the requested size, the sample that
\* get_random_sample returns holds exactly the file's bytes: it is as long as
\* the file.
C11_SmallFileWholeSample ==
    (last.op = "get_random_sample" /\ file_size < last.arg)
        => CHUNK_SIZE * last.ret.chunks = file_size

\* C12: the sample a sniffer holds is never longer than its byte budget.
C12_SampleWithinBudget ==
    CHUNK_SIZE * sample.chunks <= BYTES_TO_ANALYZE


\* C16: where a quote character occurs in the sample, the text that
\* infer_quotechar hands to the dialect-sniffing routine is the sample decoded
\* with the resolved encoding.
C16_SniffsDecodedSample ==
    (last.op = "read" /\ last.prop = "quotechar")
        => \A k \in 1..Len(last.sniffed) :
               last.sniffed[k] = DecodeChars(_encoding, sample.content, TRUE)

-----------------------------------------------------------------------------
(* Claims about the infer_* methods, checked under SpecInfer.                *)

c_CRLF == Count(sample.content, <<13, 10>>)
c_LF   == Count(sample.content, <<10>>)
c_CR   == Count(sample.content, <<13>>)

CountOf(terminator) ==
    CASE terminator = "LineTerminator.CRLF" -> c_CRLF
      [] terminator = "LineTerminator.LF"   -> c_LF
      [] terminator = "LineTerminator.CR"   -> c_CR
      [] OTHER                              -> -1

C14_MostlyCrlfIsCrlf ==
    (/\ last.op = "infer_line_terminator"
     /\ 10 * c_CRLF > 10 * (c_LF - c_CRLF) + 9 * (c_CR - c_CRLF))
        => last.ret = "LineTerminator.CRLF"

DelimiterCandidates ==
    <<"Delimiter.COMMA", "Delimiter.SEMICOLON", "Delimiter.TAB", "Delimiter.SPACE">>

\* C15: infer_delimiter never fails and returns the candidate among COMMA,
\* SEMICOLON, TAB, SPACE with the highest byte count in the sample, the
\* earliest of them on a tie, so COMMA when no candidate occurs; never NONE.
C15_DelimiterByCount ==
    (last.op = "infer_delimiter")
        => /\ last.exc = "none"
           /\ \E i \in 1..4 :
                 /\ last.ret = DelimiterCandidates[i]
                 /\ \A j \in 1..4 :
                        Count(sample.content, EnumValue(DelimiterCandidates[j]))
                            <= Count(sample.content, EnumValue(DelimiterCandidates[i]))
                 /\ \A j \in 1..(i-1) :
                        Count(sample.content, EnumValue(DelimiterCandidates[j]))
                            < Count(sample.content, EnumValue(DelimiterCandidates[i]))

\* infer_delimiter has answered on a tie between semicolon and blank
C15_Witness ==
    /\ last.op = "infer_delimiter"
    /\ Count(sample.content, <<59>>) = 1
    /\ Count(sample.content, <<32>>) = 1
    /\ Count(sample.content, <<44>>) = 0
    /\ last.ret = "Delimiter.SEMICOLON"


\* the rows the sample parses into with the sniffer's encoding and delimiter
ParsedRows ==
    LET lines == ByteLines(sample.content)
    IN  [k \in 1..Len(lines) |->
            CsvRow(_encoding, lines[k], k = 1, EnumValue(_delimiter)[1], 34)]

\* the sample parses into at least one row
Parses ==
    /\ Len(ParsedRows) >= 1
    /\ \A k \in 1..Len(ParsedRows) : ParsedRows[k].err = "none"

FirstRow == ParsedRows[1].row

\* the column positions of the first row at which the first data row holds a
\* field of another type
DifferingColumns ==
    {i \in 1..Len(FirstRow) :
        /\ Len(ParsedRows) >= 2
        /\ i <= Len(ParsedRows[2].row)
        /\ get_data_type(FirstRow[i]) # get_data_type(ParsedRows[2].row[i])}

HeaderExpected ==
    /\ \A i \in 1..Len(FirstRow) : get_data_type(FirstRow[i]) = "str"
    /\ 10 * Cardinality(DifferingColumns) > Len(FirstRow)

\* the fraction of differing columns is defined: the first row holds a field
\* and the first data row exists and holds a field at each of its positions
FractionDefined ==
    /\ Len(FirstRow) >= 1
    /\ Len(ParsedRows) >= 2
    /\ Len(ParsedRows[2].row) >= Len(FirstRow)

TwoLines ==
    LET lines == ByteLines(sample.content)
    IN  IF Len(lines) >= 2 /\ lines[2][Len(lines[2])] = 10
        THEN lines[1] \o lines[2]
        ELSE <<>>

\* C28: the result of infer_header is determined by the first row and the row
\* right after it: where it has returned a Header value on a sample, it
\* returns the same value on the sample's first two lines followed by any
\* other row, whatever the types of that row's fields.
C28_FirstTwoRowsDecide ==
    (last.op = "infer_header" /\ last.exc = "none" /\ Parses /\ TwoLines # <<>>)
        => \A later \in SeqsUpTo(FieldTexts, MaxFields) :
              HeaderOf(TwoLines \o JoinFields(later) \o <<10>>,
                       _encoding, _delimiter, _quotechar)
                  = [ret |-> last.ret, exc |-> "none"]

\* infer_header has answered FALSE on the rows a, a, 1: the third row differs
\* in type from the first, the second does not
C28_Witness ==
    /\ last.op = "infer_header"
    /\ sample.content = <<97, 10, 97, 10, 49, 10>>
    /\ last.ret = "Header.FALSE"

\* C18: on a sample that parses into at least one row, infer_header returns
\* Header.TRUE or Header.FALSE and raises nothing.
C18_HeaderNeverRaises ==
    (last.op = "infer_header" /\ Parses)
        => /\ last.exc = "none"
           /\ last.ret \in Header


-----------------------------------------------------------------------------
(* Encoding.get as a function of its argument, on the names below.           *)

\* str.lower() on ASCII text
Lower(s) == [i \in 1..Len(s) |-> IF s[i] \in 65..90 THEN s[i] + 32 ELSE s[i]]

\* the text with every other letter in capitals
Alternate(s) == [i \in 1..Len(s) |-> IF i % 2 = 1 THEN Upper(<<s[i]>>)[1] ELSE s[i]]

\* names no member answers to: '', 'utf8', 'get', 'latin-2', 'utf-8-', 'value'
OtherNames ==
    { <<>>, <<117, 116, 102, 56>>, <<103, 101, 116>>, <<108, 97, 116, 105, 110, 45, 50>>,
      <<117, 116, 102, 45, 56, 45>>, <<118, 97, 108, 117, 101>> }

\* None, every decoder name and every member name in four spellings, and the others
Names ==
    {NoneArg}
    \cup UNION { {Str(t), Str(Upper(t)), Str(Lower(t)), Str(Alternate(t))} :
                 t \in {EncodingValueChars[i] : i \in 1..Len(EncodingValueChars)}
                       \cup {EncodingNameChars[i] : i \in 1..Len(EncodingNameChars)}
                       \cup OtherNames }

InitGet ==
    /\ path_suffix = ""
    /\ file_lines = <<>>
    /\ result = NoResult
    /\ SnifferAbsent
    /\ DescriptorsAbsent
    /\ DistanceAbsent
    /\ ValidatorAbsent
    /\ name \in Names

\* Encoding.get(name)
CallEncodingGet ==
    /\ result' = Call("Encoding.get", Encoding_get(name))
    /\ UNCHANGED <<path_suffix, file_lines>>
    /\ UNCHANGED <<snifferVars, libVars>>

NextGet == CallEncodingGet

SpecGet == InitGet /\ [][NextGet]_vars

\* the text is the member name up to letter case and hyphens for underscores
Matches(chars, member_name) ==
    /\ Len(chars) = Len(member_name)
    /\ \A i \in 1..Len(chars) :
          \/ chars[i] = member_name[i]
          \/ member_name[i] \in 65..90 /\ chars[i] = member_name[i] + 32
          \/ member_name[i] = 95 /\ chars[i] = 45

\* C21: Encoding.get never raises: for a string or None it returns the member
\* whose name the argument matches after upper-casing and replacing hyphens
\* by underscores, and None for every other argument.
C21_GetNeverRaises ==
    (result.op = "Encoding.get")
        => /\ result.exc = "none"
           /\ \A i \in 1..Len(EncodingOrder) :
                 (~name.is_none /\ Matches(name.chars, EncodingNameChars[i]))
                     => result.value = EncodingOrder[i]
           /\ (name.is_none \/ \A i \in 1..Len(EncodingOrder) :
                                   ~Matches(name.chars, EncodingNameChars[i]))
                 => result.value = "None"

\* Encoding.get has answered 'UtF-16-lE' with UTF_16_LE
C21_Witness ==
    /\ result.op = "Encoding.get"
    /\ name = Str(<<85, 116, 70, 45, 49, 54, 45, 108, 69>>)
    /\ result.value = "Encoding.UTF_16_LE"

\* C25: for every member e, Encoding.get of e's decoder name (e.value), in any
\* letter case, returns e; 'utf-8-sig' resolves to UTF_8_BOM.
C25_ValueRoundTrip ==
    (result.op = "Encoding.get" /\ ~name.is_none)
        => \A i \in 1..Len(EncodingOrder) :
              (Upper(name.chars) = Upper(EncodingValueChars[i]))
                  => result.value = EncodingOrder[i]

-----------------------------------------------------------------------------
(* The dialect attributes of TextFile and DelimitedFile: EnumDescriptor      *)
(* objects that are attributes of the two classes.                           *)

\* the enum class a descriptor is created with, as repr() shows it
EnumClassOf(attr) ==
    CASE attr = "lineterminator" -> "<enum 'LineTerminator'>"
      [] attr = "encoding"       -> "<enum 'Encoding'>"
      [] attr = "header"         -> "<enum 'Header'>"
      [] attr = "delimiter"      -> "<enum 'Delimiter'>"
      [] attr = "quotechar"      -> "<enum 'Quotechar'>"

EnumClasses == {EnumClassOf(attr) : attr \in Properties}

MembersOf(class) ==
    CASE class = "<enum 'LineTerminator'>" -> LineTerminator
      [] class = "<enum 'Encoding'>"       -> Encoding
      [] class = "<enum 'Header'>"         -> Header
      [] class = "<enum 'Delimiter'>"      -> Delimiter
      [] class = "<enum 'Quotechar'>"      -> Quotechar

\* the descriptors of a class: TextFile declares three, DelimitedFile inherits
\* them and declares two more
DescriptorsOf(class) ==
    IF class = "TextFile" THEN {"lineterminator", "encoding", "header"} ELSE Properties

\* EnumDescriptor.__get__: the instance plays no part
EnumDescriptor_get(held) == held

\* EnumDescriptor.__set__ on a descriptor whose enum_class is held: the new
\* enum_class and the exception; isinstance(value, <a member>) is a TypeError
EnumDescriptor_set(held, value) ==
    IF held \notin EnumClasses THEN [held |-> held, exc |-> "TypeError"]
    ELSE IF IsInstance(value, MembersOf(held)) THEN [held |-> value, exc |-> "none"]
    ELSE [held |-> held, exc |-> "ValueError"]

\* the order in which DelimitedFile.__init__ copies the sniffer's answers
CharacteristicOrder == <<"header", "delimiter", "lineterminator", "quotechar", "encoding">>

\* what a read of the sniffer's property gives: a member, or an error of the sniffer
SnifferAnswers(fc) ==
    CASE fc = "header"         -> {"Header.TRUE", "raises"}
      [] fc = "delimiter"      -> {"Delimiter.COMMA", "raises"}
      [] fc = "lineterminator" -> {"LineTerminator.CRLF", "raises"}
      [] fc = "quotechar"      -> {"Quotechar.DOUBLE_QUOTE", "raises"}
      [] fc = "encoding"       -> {"Encoding.UTF_8", "raises"}

\* the loop of DelimitedFile.__init__ from its k-th characteristic on: a
\* TypeError of the assignment is raised again as the sniffer's answer is not None
RECURSIVE SetCharacteristics(_, _, _)
SetCharacteristics(held, k, answers) ==
    IF k > Len(CharacteristicOrder) THEN [held |-> held, exc |-> "none"]
    ELSE LET fc == CharacteristicOrder[k]
             r  == EnumDescriptor_set(held[fc], answers[fc])
         IN  IF answers[fc] = "raises" THEN [held |-> held, exc |-> "LookupError"]
             ELSE IF r.exc # "none" THEN [held |-> held, exc |-> r.exc]
             ELSE SetCharacteristics([held EXCEPT ![fc] = r.held], k + 1, answers)

\* the number of objects a run constructs
MaxInstances == 2

NoAccess ==
    [op |-> "none", inst |-> 0, attr |-> "none", arg |-> "none", ret |-> "none",
     exc |-> "none"]

\* the classes as the import leaves them, no object constructed
InitFiles ==
    /\ path_suffix = ""
    /\ file_lines = <<>>
    /\ result = NoResult
    /\ SnifferAbsent
    /\ NameAbsent
    /\ DistanceAbsent
    /\ ValidatorAbsent
    /\ descriptor_class = [attr \in Properties |-> EnumClassOf(attr)]
    /\ instances = <<>>
    /\ access = NoAccess

\* TextFile(path)
NewTextFile ==
    /\ Len(instances) < MaxInstances
    /\ instances' = Append(instances, "TextFile")
    /\ access' = [NoAccess EXCEPT !.op = "new", !.inst = Len(instances) + 1]
    /\ UNCHANGED <<name, descriptor_class, arg_s1, arg_s2, arg_limit, validator_rules,
                   validator_results, file_scores>>
    /\ UNCHANGED <<typeVars, snifferVars>>

\* DelimitedFile(path)
NewDelimitedFile ==
    /\ Len(instances) < MaxInstances
    /\ \E answers \in [Properties -> UNION {SnifferAnswers(fc) : fc \in Properties}] :
        /\ \A fc \in Properties : answers[fc] \in SnifferAnswers(fc)
        /\ LET r == SetCharacteristics(descriptor_class, 1, answers)
           IN  /\ descriptor_class' = r.held
               /\ instances' = IF r.exc = "none" THEN Append(instances, "DelimitedFile")
                               ELSE instances
               /\ access' = [NoAccess EXCEPT !.op = "new", !.inst = Len(instances) + 1,
                                             !.exc = r.exc]
    /\ UNCHANGED <<name, arg_s1, arg_s2, arg_limit, validator_rules, validator_results, file_scores>>
    /\ UNCHANGED <<typeVars, snifferVars>>

\* file.<attr> = value
AssignAttribute ==
    /\ \E inst \in 1..Len(instances) : \E attr \in DescriptorsOf(instances[inst]) :
       \E value \in Assigned(attr) :
          LET r == EnumDescriptor_set(descriptor_class[attr], value)
          IN  /\ descriptor_class' = [descriptor_class EXCEPT ![attr] = r.held]
              /\ access' = [NoAccess EXCEPT !.op = "set", !.inst = inst, !.attr = attr,
                                            !.arg = value, !.exc = r.exc]
    /\ UNCHANGED <<name, instances, arg_s1, arg_s2, arg_limit, validator_rules, validator_results,
                   file_scores>>
    /\ UNCHANGED <<typeVars, snifferVars>>

\* value = file.<attr>
ReadAttribute ==
    /\ \E inst \in 1..Len(instances) : \E attr \in DescriptorsOf(instances[inst]) :
          access' = [NoAccess EXCEPT !.op = "get", !.inst = inst, !.attr = attr,
                                     !.ret = EnumDescriptor_get(descriptor_class[attr])]
    /\ UNCHANGED <<name, descriptor_class, instances, arg_s1, arg_s2, arg_limit, validator_rules,
                   validator_results, file_scores>>
    /\ UNCHANGED <<typeVars, snifferVars>>

NextFiles ==
    \/ NewTextFile
    \/ NewDelimitedFile
    \/ AssignAttribute
    \/ ReadAttribute

SpecFiles == InitFiles /\ [][NextFiles]_vars

\* C23: dialect values are per instance: an assignment on one object leaves
\* the value read from every other object as it was, and the assignment of a
\* member of the attribute's enum does not fail, whether or not a member was
\* assigned to that attribute before (on the same or on another object).
C23_ValuesPerInstance ==
    [][ /\ (access'.op = "set" /\ IsInstance(access'.arg, EnumOf(access'.attr)))
            => access'.exc = "none"
        /\ \A other \in 1..Len(instances) : \A attr \in Properties :
              (/\ access'.op = "set"
               /\ access'.inst # other
               /\ attr \in DescriptorsOf(instances[other]))
                  => EnumDescriptor_get(descriptor_class'[attr])
                         = EnumDescriptor_get(descriptor_class[attr]) ]_vars

-----------------------------------------------------------------------------
(* Levenshtein.distance (helpers/levenshtein.py) on text: sequences of code  *)
(* points.                                                                   *)

\* the characters str.strip() removes
Whitespace == {32, 9, 10, 11, 12, 13}

RECURSIVE Strip(_)
Strip(s) ==
    IF s = <<>> THEN s
    ELSE IF s[1] \in Whitespace THEN Strip(Tail(s))
    ELSE IF s[Len(s)] \in Whitespace THEN Strip(SubSeq(s, 1, Len(s) - 1))
    ELSE s

Min3(a, b, c) == Min(a, Min(b, c))

\* the inner loop from index1 on: the finished row, or the value returned from within
RECURSIVE InnerLoop(_, _, _, _, _, _)
InnerLoop(s1, char2, distances, new_distances, index1, limit) ==
    IF index1 >= Len(s1) THEN [returned |-> FALSE, value |-> new_distances]
    ELSE IF index1 > limit THEN [returned |-> TRUE, value |-> limit + 1]
    ELSE InnerLoop(s1, char2, distances,
                   Append(new_distances,
                          IF s1[index1 + 1] = char2 THEN distances[index1 + 1]
                          ELSE 1 + Min3(distances[index1 + 1], distances[index1 + 2],
                                        new_distances[Len(new_distances)])),
                   index1 + 1, limit)

\* the outer loop from index2 on
RECURSIVE OuterLoop(_, _, _, _, _)
OuterLoop(s1, s2, distances, index2, limit) ==
    IF index2 >= Len(s2) THEN distances[Len(distances)]
    ELSE IF index2 > limit THEN limit + 1
    ELSE LET row == InnerLoop(s1, s2[index2 + 1], distances, <<index2 + 1>>, 0, limit)
         IN  IF row.returned THEN row.value
             ELSE OuterLoop(s1, s2, row.value, index2 + 1, limit)

distance(s1, s2, limit) ==
    LET a       == Strip(s1)
        b       == Strip(s2)
        shorter == IF Len(a) > Len(b) THEN b ELSE a
        longer  == IF Len(a) > Len(b) THEN a ELSE b
    IN  Returned(OuterLoop(shorter, longer, [i \in 1..(Len(shorter) + 1) |-> i - 1], 0, limit))

MaxStrLen == 3

\* texts of a, b and blank up to the bound, and eleven and twelve times a
Texts == SeqsUpTo({97, 98, 32}, MaxStrLen) \cup {Repeat(97, 11), Repeat(97, 12)}

\* the limits: small ones and the default
DistanceLimits == {0, 1, 2, 10}

InitDistance ==
    /\ path_suffix = ""
    /\ file_lines = <<>>
    /\ result = NoResult
    /\ SnifferAbsent
    /\ NameAbsent
    /\ DescriptorsAbsent
    /\ ValidatorAbsent
    /\ arg_s1 \in Texts
    /\ arg_s2 \in Texts
    /\ arg_limit \in DistanceLimits

\* Levenshtein.distance(s1, s2, limit)
CallDistance ==
    /\ result' = Call("distance", distance(arg_s1, arg_s2, arg_limit))
    /\ UNCHANGED <<path_suffix, file_lines>>
    /\ UNCHANGED <<snifferVars, libVars>>

NextDistance == CallDistance

SpecDistance == InitDistance /\ [][NextDistance]_vars

\* the least number of insertions, deletions and substitutions that turn a into b
RECURSIVE EditDistance(_, _)
EditDistance(a, b) ==
    IF a = <<>> THEN Len(b)
    ELSE IF b = <<>> THEN Len(a)
    ELSE IF Head(a) = Head(b) THEN EditDistance(Tail(a), Tail(b))
    ELSE 1 + Min3(EditDistance(Tail(a), b), EditDistance(a, Tail(b)),
                  EditDistance(Tail(a), Tail(b)))

\* C29: Levenshtein.distance returns the edit distance of the two stripped
\* strings whenever that distance is at most limit, and a value greater than
\* limit only when the edit distance exceeds limit; distance(s, s) = 0 for
\* every string s.
C29_DistanceWithinLimit ==
    (result.op = "distance")
        => LET d == IF arg_s1 = arg_s2 THEN 0
                    ELSE EditDistance(Strip(arg_s1), Strip(arg_s2))
           IN  /\ result.exc = "none"
               /\ (d <= arg_limit) => result.value = d
               /\ (result.value > arg_limit) => d > arg_limit
               /\ (arg_s1 = arg_s2) => result.value = 0

-----------------------------------------------------------------------------
(* Validator, Rule and score_calc (validator/__init__.py) with the rules of  *)
(* validator/rules.py. Scores are in thousandths, weights in tenths.         *)

\* the rule classes IqReport registers
RuleClasses == {"SimpleHeader", "UniformFields", "CsvCharacteristics"}

\* Rule.conditions after the rule's __init__: (condition, weight) pairs
ConditionsOf(rule) ==
    CASE rule = "SimpleHeader"       -> {[condition |-> "HasHeader", weight |-> 1]}
      [] rule = "UniformFields"      -> {[condition |-> "FieldLength", weight |-> 10],
                                         [condition |-> "RegularLineLength", weight |-> 10]}
      [] rule = "CsvCharacteristics" -> {[condition |-> "FileProperty", weight |-> 10]}

\* the scores a condition's function can give: HasHeader returns 0.0 on every
\* File, the others 0.0 or 1.0
ScoresOf(condition) == IF condition = "HasHeader" THEN {0} ELSE {0, 1000}

ConditionNames == {"HasHeader", "FieldLength", "RegularLineLength", "FileProperty"}

score_calc(old_score, new_score, weight) ==
    old_score + ((new_score - old_score) * weight) \div 10

\* the loop of Rule.evaluate over the conditions left, in any order the set yields them
RECURSIVE EvaluateLoop(_, _, _)
EvaluateLoop(conditions, score, scores) ==
    IF conditions = {} THEN {score}
    ELSE UNION { EvaluateLoop(conditions \ {c},
                              score_calc(score, scores[c.condition], c.weight), scores)
                 : c \in conditions }

\* Rule.evaluate(file): the scores it can return
evaluate(rule, scores) == EvaluateLoop(ConditionsOf(rule), 1000, scores)

\* Validator.threshhold
threshhold == 1000

\* the loop of Validator.validate over the rules left: the lists results can become
RECURSIVE ValidateLoop(_, _, _)
ValidateLoop(rule_set, list, scores) ==
    IF rule_set = {} THEN {list}
    ELSE UNION { UNION { ValidateLoop(rule_set \ {rule}, Append(list, score), scores)
                         : score \in evaluate(rule, scores) }
                 : rule \in rule_set }

SeqMin(list) == CHOOSE x \in {list[i] : i \in 1..Len(list)} :
                    \A i \in 1..Len(list) : x <= list[i]

\* Validator.validate(file): [results, value, exc]; min() of no results is a ValueError
validate(rule_set, list, scores) ==
    { IF after = <<>> THEN [results |-> after, value |-> "none", exc |-> "ValueError"]
      ELSE [results |-> after, value |-> SeqMin(after) > threshhold, exc |-> "none"]
      : after \in ValidateLoop(rule_set, list, scores) }

\* the number of results a run collects
MaxResults == 4

\* a Validator as its __init__ leaves it, and the file it validates
InitValidator ==
    /\ path_suffix = ""
    /\ file_lines = <<>>
    /\ result = NoResult
    /\ SnifferAbsent
    /\ NameAbsent
    /\ DescriptorsAbsent
    /\ DistanceAbsent
    /\ validator_rules = {}
    /\ validator_results = <<>>
    /\ file_scores \in [ConditionNames -> {0, 1000}]
    /\ \A c \in ConditionNames : file_scores[c] \in ScoresOf(c)

\* validator.add_rule(rule)
AddRule ==
    /\ \E rule \in RuleClasses \ validator_rules :
          validator_rules' = validator_rules \cup {rule}
    /\ result' = Call("add_rule", Returned("None"))
    /\ UNCHANGED <<path_suffix, file_lines>>
    /\ UNCHANGED <<name, descriptor_class, instances, access, arg_s1, arg_s2, arg_limit,
                   validator_results, file_scores>>
    /\ UNCHANGED snifferVars

\* validator.validate(file)
Validate ==
    /\ Len(validator_results) + Cardinality(validator_rules) <= MaxResults
    /\ \E o \in validate(validator_rules, validator_results, file_scores) :
          /\ validator_results' = o.results
          /\ result' = Call("validate", o)
    /\ UNCHANGED <<path_suffix, file_lines>>
    /\ UNCHANGED <<name, descriptor_class, instances, access, arg_s1, arg_s2, arg_limit,
                   validator_rules, file_scores>>
    /\ UNCHANGED snifferVars

NextValidator ==
    \/ AddRule
    \/ Validate

SpecValidator == InitValidator /\ [][NextValidator]_vars

\* every condition of every registered rule scores 1.0 on the file
AllSatisfied ==
    \A rule \in validator_rules : \A c \in ConditionsOf(rule) :
        file_scores[c.condition] = 1000

\* C30: Validator.validate(file) returns True when every condition of every
\* registered rule is satisfied, so that every rule evaluates to the maximum
\* score 1.0, with the default threshold.
C30_ValidWhenAllSatisfied ==
    (result.op = "validate" /\ validator_rules # {} /\ AllSatisfied)
        => (result.exc = "none" /\ result.value = TRUE)

=============================================================================
